---- MODULE Spec2Model ----
(***************************************************************************)
(* Model of the pipeline orchestrator of ai-podcast-clipper-saas.          *)
(*                                                                         *)
(* One pipeline row, its generated_clips rows and its owner's              *)
(* user_profiles row are the shared datastore.  Around them run            *)
(*   - unifiedPipelineProcessor, an Inngest function of nine step.run      *)
(*     steps (retries: 1, every step memoised once it has succeeded),      *)
(*   - the /api/deduct-credits route it calls,                             *)
(*   - the render backend, which turns every SQS message into a            *)
(*     remotion.render.complete event,                                     *)
(*   - handleRenderCompleted, one run per event,                           *)
(*   - phase1OrchestratorEventDriven and phase2BatchProcessorEventDriven   *)
(*     (retries: 0), the event-driven phases 1 and 2,                      *)
(*   - handleRenderStarted, one run per remotion.render.started event,     *)
(*   - the admission route POST /api/production-pipeline.                  *)
(*                                                                         *)
(* Spec           the unified function with the route, renders, handlers;  *)
(* FairSpec       Spec under weak fairness of its steps;                   *)
(* SpecAggregator the handlers alone, from the state after the dispatch;   *)
(* SpecE2E        the fault-free run of the end-to-end scenario;           *)
(* SpecBatch      the batch phase alone, with two or three batches;        *)
(* SpecEvent      the event-driven phases 1 and 2;                         *)
(* SpecAdmission  concurrent requests to the admission route;              *)
(* SpecUpToBatches the unified function up to the end of the batch phase;  *)
(* SpecNotify     the notification handlers under repeated and late        *)
(*                notifications;                                           *)
(* SpecRemotionWebhook  POST /api/inngest/remotion-complete and the        *)
(*                delivery of its events to the served functions;          *)
(* SpecModalWebhook     POST /api/modal-complete likewise;                 *)
(* SpecDownload   rapidApiOrchestrator: request, polling, phase-1 event;   *)
(* SpecAfterAnalysis    the unified function from the analysis result on;  *)
(* SpecHandlerFaults    handleRenderCompleted with failing datastore calls;*)
(* SpecZeroRows   SpecAfterAnalysis with handleRenderCompleted and events  *)
(*                that name no clip row;                                   *)
(* SpecEventPhase3      SpecEvent followed by phase3RemotionProcessor;     *)
(* SpecDeduct     concurrent requests to /api/deduct-credits;              *)
(* SpecQuota      SpecAdmission with pipelines reaching a terminal status; *)
(* SpecWait       the waitForEvent steps of the event-driven phases and    *)
(*                the backend's webhooks, for two pipelines;               *)
(* SpecMonitor    monitorRemotionProgress, one run per dispatched clip.    *)
(*                                                                         *)
(* The external services (analysis, batch backend, SQS, the HTTP hop to    *)
(* the credit route) may fail, at most MaxFaults times in one behaviour.   *)
(* Datastore calls succeed, except the unchecked updates of SpecEvent and  *)
(* the calls of SpecHandlerFaults, whose failure counts as a fault.        *)
(***************************************************************************)
EXTENDS Integers, Sequences, FiniteSets, Bags, TLC

\* ------------------------------------------------------------------ bounds
MaxMoments == 2          \* viral moments one analysis may return
MaxCredits == 3          \* largest initial credit balance
MaxFaults == 2           \* external-service faults in one behaviour
MaxCandidates == 9       \* viral moments entering phase 2 in SpecBatch

\* ------------------------------------------------------- program constants
Retries == 1             \* unifiedPipelineProcessor: retries: 1
clipsPerBatch == 4       \* BATCH_CONFIG.clipsPerBatch
maxConcurrentBatches == 2 \* BATCH_CONFIG.maxConcurrentBatches

VARIABLES
    user,             \* user_profiles row: credits, total_credits_used
    pipeline,         \* pipelines row
    generated_clips,  \* generated_clips rows of the pipeline: clip_index -> status
    sqs,              \* render-dispatch messages sent: clip_index -> count
    run,              \* the Inngest run: current step, attempt, place in the step
    analysisResult,   \* memoised result of phase1-analysis: viral_moments.length, -1 before
    batchPromises,    \* phase 2, this attempt: one promise per batch request
    batchResults,     \* memoised result of phase2-batch-processing
    sqsPromises,      \* phase 3, this attempt: clip_index -> state of its promise
    deduct,           \* the /api/deduct-credits request in progress
    rendered,         \* render backend: clip_index -> outcome of its render
    handlers,         \* bag of running handleRenderCompleted invocations
    clock,            \* source of new Date() values
    faults,           \* external faults injected so far
    hist,             \* history: what has been executed (read by the properties only)
    profiles,         \* admission: user id -> quota columns of the user_profiles row
    pipelines,        \* admission: bag of the pipelines rows, [user_id, status]
    posts,            \* admission: POST /api/production-pipeline requests: id -> progress
    events,           \* admission: the pipeline/start events sent, by request id
    started,          \* clips whose remotion.render.started event has been handled
    webhooks,         \* inbound webhook requests: id -> payload and response
    bus,              \* the events the webhook routes have sent to Inngest
    invocations,      \* the function runs Inngest has started for those events
    download,         \* rapidApiOrchestrator: its step, the responses it holds
    deductions,       \* concurrent POST /api/deduct-credits requests: id -> progress
    monitor,          \* monitorRemotionProgress: the run for one render
    waits             \* event-driven runs that wait for backend webhooks: pipeline -> run

\* The state of the inbound webhook routes.
inbound == <<webhooks, bus, invocations>>

\* No request is in progress at /api/deduct-credits besides the orchestrator's.
NoDeductions == <<>>

\* No event-driven run is waiting for a webhook.
NoWaits == <<>>

\* monitorRemotionProgress before its event arrives.
NoMonitor == <<>>

\* rapidApiOrchestrator before its event arrives.
NoDownload ==
    [pc |-> "idle", download_url |-> "absent", progress_url |-> "absent",
     attempt |-> 0, downloadResult |-> "absent"]

\* No webhook has been received.
NoInbound ==
    /\ webhooks = <<>>
    /\ bus = <<>>
    /\ invocations = EmptyBag

\* The state of the admission route.
admission == <<profiles, pipelines, posts, events>>

vars == <<user, pipeline, generated_clips, sqs, run, analysisResult, batchPromises,
          batchResults, sqsPromises, deduct, rendered, handlers, clock, faults, hist,
          admission, started, inbound, download, deductions, monitor, waits>>

\* No submission is in progress at the admission route.
NoAdmission ==
    /\ profiles = <<>>
    /\ pipelines = EmptyBag
    /\ posts = <<>>
    /\ events = {}

\* ------------------------------------------------------------------ helpers
Max2(a, b) == IF a >= b THEN a ELSE b

RECURSIVE SumSeq(_)
SumSeq(s) == IF s = <<>> THEN 0 ELSE Head(s) + SumSeq(Tail(s))

RECURSIVE UnionSeq(_)
UnionSeq(s) == IF s = <<>> THEN {} ELSE Head(s) \cup UnionSeq(Tail(s))

\* The statuses after which the pipeline is over.  The orchestrator writes
\* 'no credits' where the schema comment speaks of no_credits.
TerminalStatuses == {"completed", "failed", "timeout", "no credits"}

FinishedClipStatuses == {"COMPLETED", "FAILED"}

\* The step.run sequence of unifiedPipelineProcessor.
StepOrder ==
    <<"handle-youtube-video-process", "update-pipeline-status", "phase1-analysis",
      "update-pipeline-after-analysis", "phase2-batch-processing",
      "update-pipeline-after-batches", "phase3-remotion-rendering",
      "deduct-credits", "final-pipeline-update">>

StepIndex(s) == CHOOSE i \in 1..Len(StepOrder) : StepOrder[i] = s

\* The step that runs once step s has returned; "returned" after the last.
NextStep(s) ==
    IF StepIndex(s) = Len(StepOrder) THEN "returned" ELSE StepOrder[StepIndex(s) + 1]

\* step.run returned: the result is memoised and the next step starts fresh.
StepDone == run' = [pc |-> NextStep(run.pc), attempt |-> 0, at |-> "start", i |-> 0]

\* A retry policy that does not tell the error kinds apart.
StepThrowsRetriesAll(retriable) ==
    run' = IF run.attempt < Retries
           THEN [run EXCEPT !.attempt = @ + 1, !.at = "start", !.i = 0]
           ELSE [run EXCEPT !.pc = "function-failed", !.at = run.pc, !.i = 0]

\* step.run threw.  An Error is retried while attempts remain (retries: 1);
\* a NonRetriableError, or an Error on the last attempt, fails the run
\* (run.at then names the step that failed).
StepThrows(retriable) ==
    run' = IF retriable /\ run.attempt < Retries
           THEN [run EXCEPT !.attempt = @ + 1, !.at = "start", !.i = 0]
           ELSE [run EXCEPT !.pc = "function-failed", !.at = run.pc, !.i = 0]

AtStep(s) == run.pc = s /\ run.at = "start"

Fault == faults < MaxFaults /\ faults' = faults + 1

\* supabase.from("pipelines").update(fields).eq("id", pipelineId)
UpdatePipeline(fields) ==
    pipeline' = [k \in DOMAIN pipeline |->
                    IF k \in DOMAIN fields THEN fields[k] ELSE pipeline[k]]

\* ------------------------------------------------------------------- Init
NewPipeline ==
    [status |-> "pending",
     phase1_started_at |-> 0, phase1_completed_at |-> 0,
     phase2_started_at |-> 0, phase2_completed_at |-> 0,
     phase3_started_at |-> 0, phase3_completed_at |-> 0,
     total_clips |-> 0, successful_clips |-> 0, failed_clips |-> 0,
     error_message |-> "", error_phase |-> ""]

IdleRoute == [pc |-> "idle", credits |-> 0, currentCredits |-> 0, total_credits_used |-> 0]

NewHist == [credits0 |-> 0, settlements |-> 0, flips |-> 0, observedDone |-> FALSE,
            dispatched |-> FALSE]

\* The state in which the function starting with step pc is invoked.
InitAt(credits, pc) ==
    /\ user = [credits |-> credits, total_credits_used |-> 0]
    /\ pipeline = NewPipeline
    /\ generated_clips = <<>>
    /\ sqs = <<>>
    /\ run = [pc |-> pc, attempt |-> 0, at |-> "start", i |-> 0]
    /\ analysisResult = -1
    /\ batchPromises = <<>>
    /\ batchResults = <<>>
    /\ sqsPromises = <<>>
    /\ deduct = IdleRoute
    /\ rendered = <<>>
    /\ handlers = EmptyBag
    /\ clock = 1
    /\ faults = 0
    /\ hist = [NewHist EXCEPT !.credits0 = credits]
    /\ NoAdmission
    /\ started = {}
    /\ download = NoDownload
    /\ deductions = NoDeductions
    /\ monitor = NoMonitor
    /\ waits = NoWaits
    /\ NoInbound

InitWith(credits) == InitAt(credits, "handle-youtube-video-process")

Init == \E c \in 0..MaxCredits : InitWith(c)

\* --------------------------------------------- unifiedPipelineProcessor 1-4
\* STEP 1, user has credits: the step returns pipelineData.
HandleYoutubeVideoProcess ==
    /\ AtStep("handle-youtube-video-process")
    /\ user.credits > 0
    /\ StepDone
    /\ UNCHANGED <<waits, monitor, deductions, download, inbound, started, admission, user, pipeline, generated_clips, sqs, analysisResult, batchPromises,
                   batchResults, sqsPromises, deduct, rendered, handlers, clock,
                   faults, hist>>

\* A first step that records the missing credits and lets the run go on.
HandleNoCreditsProceeds ==
    /\ AtStep("handle-youtube-video-process")
    /\ user.credits <= 0
    /\ UpdatePipeline([status |-> "no credits"])
    /\ StepDone
    /\ UNCHANGED <<waits, monitor, deductions, download, inbound, started, admission, user, generated_clips, sqs,
                   analysisResult, batchPromises, batchResults, sqsPromises, deduct,
                   rendered, handlers, clock, faults, hist>>

\* STEP 1, credits <= 0: status 'no credits' is written and an Error thrown.
HandleNoCredits ==
    /\ AtStep("handle-youtube-video-process")
    /\ user.credits <= 0
    /\ UpdatePipeline([status |-> "no credits"])
    /\ StepThrows(TRUE)
    /\ UNCHANGED <<waits, monitor, deductions, download, inbound, started, admission, user, generated_clips, sqs, analysisResult, batchPromises,
                   batchResults, sqsPromises, deduct, rendered, handlers, clock,
                   faults, hist>>

\* STEP 2
UpdatePipelineStatus ==
    /\ AtStep("update-pipeline-status")
    /\ UpdatePipeline([status |-> "processing", phase1_started_at |-> clock])
    /\ clock' = clock + 1
    /\ StepDone
    /\ UNCHANGED <<waits, monitor, deductions, download, inbound, started, admission, user, generated_clips, sqs, analysisResult, batchPromises,
                   batchResults, sqsPromises, deduct, rendered, handlers,
                   faults, hist>>

\* STEP 3, 2xx with status "success": the result (n viral moments) is returned.
AnalysisSucceedsWith(n) ==
    /\ AtStep("phase1-analysis")
    /\ analysisResult' = n
    /\ StepDone
    /\ UNCHANGED <<waits, monitor, deductions, download, inbound, started, admission, user, pipeline, generated_clips, sqs, batchPromises,
                   batchResults, sqsPromises, deduct, rendered, handlers, clock,
                   faults, hist>>

AnalysisSucceeds == \E n \in 0..MaxMoments : AnalysisSucceedsWith(n)

\* STEP 3, 401/403 or another 4xx: NonRetriableError.
AnalysisClientError ==
    /\ AtStep("phase1-analysis")
    /\ Fault
    /\ StepThrows(FALSE)
    /\ UNCHANGED <<waits, monitor, deductions, download, inbound, started, admission, user, pipeline, generated_clips, sqs, analysisResult, batchPromises,
                   batchResults, sqsPromises, deduct, rendered, handlers, clock, hist>>

\* STEP 3, 5xx or a network failure: a plain Error, rethrown by the catch.
AnalysisServerError ==
    /\ AtStep("phase1-analysis")
    /\ Fault
    /\ StepThrows(TRUE)
    /\ UNCHANGED <<waits, monitor, deductions, download, inbound, started, admission, user, pipeline, generated_clips, sqs, analysisResult, batchPromises,
                   batchResults, sqsPromises, deduct, rendered, handlers, clock, hist>>

\* STEP 3, 2xx with status "error": status failed is written, then a plain
\* Error is thrown from inside the try block and rethrown by the catch.
AnalysisStatusError ==
    /\ AtStep("phase1-analysis")
    /\ Fault
    /\ UpdatePipeline([status |-> "failed", error_message |-> "analysis error",
                       error_phase |-> "analysis"])
    /\ StepThrows(TRUE)
    /\ UNCHANGED <<waits, monitor, deductions, download, inbound, started, admission, user, generated_clips, sqs, analysisResult, batchPromises,
                   batchResults, sqsPromises, deduct, rendered, handlers, clock, hist>>

\* STEP 3, the AbortController fires: status timeout, NonRetriableError.
AnalysisTimeout ==
    /\ AtStep("phase1-analysis")
    /\ Fault
    /\ UpdatePipeline([status |-> "timeout",
                       error_message |-> "Modal analysis timed out after 8 minutes",
                       error_phase |-> "analysis"])
    /\ StepThrows(FALSE)
    /\ UNCHANGED <<waits, monitor, deductions, download, inbound, started, admission, user, generated_clips, sqs, analysisResult, batchPromises,
                   batchResults, sqsPromises, deduct, rendered, handlers, clock, hist>>

\* STEP 4
UpdatePipelineAfterAnalysis ==
    /\ AtStep("update-pipeline-after-analysis")
    /\ UpdatePipeline([status |-> "analysis_completed", total_clips |-> analysisResult,
                       phase1_completed_at |-> clock])
    /\ clock' = clock + 1
    /\ StepDone
    /\ UNCHANGED <<waits, monitor, deductions, download, inbound, started, admission, user, generated_clips, sqs, analysisResult, batchPromises,
                   batchResults, sqsPromises, deduct, rendered, handlers,
                   faults, hist>>

\* --------------------------------------------- phase2-batch-processing (5)
\* Array.prototype.slice(a, b) on a TLA+ sequence (0-based, b excluded, clamped).
Slice(s, a, b) == SubSeq(s, a + 1, IF b < Len(s) THEN b ELSE Len(s))

\* viralMoments.map((moment, index) => ({...moment, original_index: index}))
IndexedMoments(n) == [k \in 1..n |-> k - 1]

\* A grouping loop that pushes a batch before it tests its bound.
RECURSIVE BatchGroupsFromDoWhile(_, _)
BatchGroupsFromDoWhile(indexedMoments, i) ==
    LET batch == Slice(indexedMoments, i, i + clipsPerBatch)
    IN  <<[batch_index |-> i \div clipsPerBatch,
           viral_moments |-> batch,
           clip_count |-> Len(batch)]>>
        \o (IF i + clipsPerBatch >= Len(indexedMoments) THEN <<>>
            ELSE BatchGroupsFromDoWhile(indexedMoments, i + clipsPerBatch))

\* for (i = 0; i < indexedMoments.length; i += clipsPerBatch) batchGroups.push(...)
RECURSIVE BatchGroupsFrom(_, _)
BatchGroupsFrom(indexedMoments, i) ==
    IF i >= Len(indexedMoments) THEN <<>>
    ELSE LET batch == Slice(indexedMoments, i, i + clipsPerBatch)
         IN  <<[batch_index |-> i \div clipsPerBatch,
                viral_moments |-> batch,
                clip_count |-> Len(batch)]>>
             \o BatchGroupsFrom(indexedMoments, i + clipsPerBatch)

BatchGroups == BatchGroupsFrom(IndexedMoments(Max2(analysisResult, 0)), 0)

Range(s) == {s[k] : k \in DOMAIN s}

PendingPromise == [state |-> "pending", processed_clips |-> {}, failed_clips |-> {}]

\* STEP 5 up to the first await: the Phase 2 status is written, the batches are
\* created and batchGroups.map(async ...) starts the request of every batch.
Phase2Start ==
    /\ AtStep("phase2-batch-processing")
    /\ UpdatePipeline([status |-> "batch_processing", phase2_started_at |-> clock])
    /\ clock' = clock + 1
    /\ batchPromises' = [b \in 1..Len(BatchGroups) |-> PendingPromise]
    /\ run' = [run EXCEPT !.at = "await", !.i = 0]
    /\ UNCHANGED <<waits, monitor, deductions, download, inbound, started, admission, user, generated_clips, sqs, analysisResult, batchResults,
                   sqsPromises, deduct, rendered, handlers, faults, hist>>

\* The batch backend answers 2xx, status "success", every moment processed.
BatchSucceeds(b) ==
    /\ run.pc = "phase2-batch-processing" /\ run.at = "await"
    /\ batchPromises[b].state = "pending"
    /\ batchPromises' = [batchPromises EXCEPT ![b] =
            [state |-> "fulfilled",
             processed_clips |-> Range(BatchGroups[b].viral_moments),
             failed_clips |-> {}]]
    /\ UNCHANGED <<waits, monitor, deductions, download, inbound, started, admission, user, pipeline, generated_clips, sqs, run, analysisResult,
                   batchResults, sqsPromises, deduct, rendered, handlers, clock,
                   faults, hist>>

\* The batch backend answers 2xx, status "success", with the moments of f in
\* failed_clips (clips_failed > 0).
BatchSucceedsPartly(b) ==
    /\ run.pc = "phase2-batch-processing" /\ run.at = "await"
    /\ batchPromises[b].state = "pending"
    /\ Fault
    /\ \E f \in SUBSET Range(BatchGroups[b].viral_moments) :
        /\ f # {}
        /\ batchPromises' = [batchPromises EXCEPT ![b] =
                [state |-> "fulfilled",
                 processed_clips |-> Range(BatchGroups[b].viral_moments) \ f,
                 failed_clips |-> f]]
    /\ UNCHANGED <<waits, monitor, deductions, download, inbound, started, admission, user, pipeline, generated_clips, sqs, run, analysisResult,
                   batchResults, sqsPromises, deduct, rendered, handlers, clock, hist>>

\* The batch request fails upstream: non-2xx, status "error", or the 20-minute
\* AbortController.  Each is logged and rethrown: the promise rejects.
BatchFails(b) ==
    /\ run.pc = "phase2-batch-processing" /\ run.at = "await"
    /\ batchPromises[b].state = "pending"
    /\ Fault
    /\ batchPromises' = [batchPromises EXCEPT ![b].state = "rejected"]
    /\ UNCHANGED <<waits, monitor, deductions, download, inbound, started, admission, user, pipeline, generated_clips, sqs, run, analysisResult,
                   batchResults, sqsPromises, deduct, rendered, handlers, clock, hist>>

\* The promises awaited together: batchPromises.slice(i, i + maxConcurrentBatches).
AwaitedGroup == {b \in DOMAIN batchPromises :
                    run.i < b /\ b <= run.i + maxConcurrentBatches}

BatchResultOf(p) ==
    [clips_processed |-> Cardinality(p.processed_clips),
     clips_failed |-> Cardinality(p.failed_clips),
     processed_clips |-> p.processed_clips,
     failed_clips |-> p.failed_clips]

\* await Promise.all(batch) returns: results.push(...batchResults); next group.
AwaitBatchGroup ==
    /\ run.pc = "phase2-batch-processing" /\ run.at = "await"
    /\ run.i < Len(batchPromises)
    /\ \A b \in AwaitedGroup : batchPromises[b].state = "fulfilled"
    /\ run' = [run EXCEPT !.i = @ + maxConcurrentBatches]
    /\ UNCHANGED <<waits, monitor, deductions, download, inbound, started, admission, user, pipeline, generated_clips, sqs, analysisResult, batchPromises,
                   batchResults, sqsPromises, deduct, rendered, handlers, clock,
                   faults, hist>>

\* await Promise.all(batch) rejects with the first rejection of its group: the
\* step throws, whatever the sibling batches did.
AwaitBatchGroupRejects ==
    /\ run.pc = "phase2-batch-processing" /\ run.at = "await"
    /\ run.i < Len(batchPromises)
    /\ \E b \in AwaitedGroup : batchPromises[b].state = "rejected"
    /\ StepThrows(TRUE)
    /\ batchPromises' = <<>>
    /\ UNCHANGED <<waits, monitor, deductions, download, inbound, started, admission, user, pipeline, generated_clips, sqs, analysisResult,
                   batchResults, sqsPromises, deduct, rendered, handlers, clock,
                   faults, hist>>

\* The loop is over: return results.
Phase2Returns ==
    /\ run.pc = "phase2-batch-processing" /\ run.at = "await"
    /\ run.i >= Len(batchPromises)
    /\ batchResults' = [b \in DOMAIN batchPromises |-> BatchResultOf(batchPromises[b])]
    /\ batchPromises' = <<>>
    /\ StepDone
    /\ UNCHANGED <<waits, monitor, deductions, download, inbound, started, admission, user, pipeline, generated_clips, sqs, analysisResult,
                   sqsPromises, deduct, rendered, handlers, clock, faults, hist>>

totalClipsProcessed == SumSeq([b \in DOMAIN batchResults |-> batchResults[b].clips_processed])

totalClipsFailed == SumSeq([b \in DOMAIN batchResults |-> batchResults[b].clips_failed])

\* batchResults.flatMap(result => result.processed_clips || [])
allProcessedClips == UnionSeq([b \in DOMAIN batchResults |-> batchResults[b].processed_clips])

\* STEP 6
UpdatePipelineAfterBatches ==
    /\ AtStep("update-pipeline-after-batches")
    /\ UpdatePipeline([status |-> "batch_processing_completed",
                       phase2_completed_at |-> clock,
                       successful_clips |-> totalClipsProcessed,
                       failed_clips |-> totalClipsFailed])
    /\ clock' = clock + 1
    /\ StepDone
    /\ UNCHANGED <<waits, monitor, deductions, download, inbound, started, admission, user, generated_clips, sqs, analysisResult, batchPromises,
                   batchResults, sqsPromises, deduct, rendered, handlers,
                   faults, hist>>

\* ------------------------------------------- phase3-remotion-rendering (7)
\* STEP 7 with clips to render, up to the await: status remotion_rendering and
\* phase3_started_at, then remotion_rendering_queued, then one promise per clip.
Phase3Start ==
    /\ AtStep("phase3-remotion-rendering")
    /\ allProcessedClips # {}
    /\ UpdatePipeline([status |-> "remotion_rendering_queued", phase3_started_at |-> clock])
    /\ clock' = clock + 1
    /\ sqsPromises' = [c \in allProcessedClips |-> "pending"]
    /\ run' = [run EXCEPT !.at = "await"]
    /\ UNCHANGED <<waits, monitor, deductions, download, inbound, started, admission, user, generated_clips, sqs, analysisResult, batchPromises,
                   batchResults, deduct, rendered, handlers, faults, hist>>

\* STEP 7 without clips: "No clips to render - skipping Phase 3".
Phase3Skips ==
    /\ AtStep("phase3-remotion-rendering")
    /\ allProcessedClips = {}
    /\ UpdatePipeline([status |-> "remotion_rendering", phase3_started_at |-> clock])
    /\ clock' = clock + 1
    /\ hist' = [hist EXCEPT !.dispatched = TRUE]
    /\ StepDone
    /\ UNCHANGED <<waits, monitor, deductions, download, inbound, started, admission, user, generated_clips, sqs, analysisResult, batchPromises,
                   batchResults, sqsPromises, deduct, rendered, handlers, faults>>

Phase3Pending(c) ==
    /\ run.pc = "phase3-remotion-rendering" /\ run.at = "await"
    /\ c \in DOMAIN sqsPromises
    /\ sqsPromises[c] = "pending"

\* A dispatch of one clip that upserts the row instead of inserting it.
Phase3ClipQueuedUpsert(c) ==
    /\ Phase3Pending(c)
    /\ generated_clips' = (c :> "QUEUED") @@ generated_clips
    /\ sqs' = (c :> (IF c \in DOMAIN sqs THEN sqs[c] + 1 ELSE 1)) @@ sqs
    /\ sqsPromises' = [sqsPromises EXCEPT ![c] = "fulfilled"]
    /\ UNCHANGED <<waits, monitor, deductions, download, inbound, started, admission, user, pipeline, run, analysisResult, batchPromises, batchResults,
                   deduct, rendered, handlers, clock, faults, hist>>

\* One clip: the generated_clips row is inserted with status QUEUED and the
\* message is sent to SQS.
Phase3ClipQueued(c) ==
    /\ Phase3Pending(c)
    /\ c \notin DOMAIN generated_clips
    /\ generated_clips' = (c :> "QUEUED") @@ generated_clips
    /\ sqs' = (c :> (IF c \in DOMAIN sqs THEN sqs[c] + 1 ELSE 1)) @@ sqs
    /\ sqsPromises' = [sqsPromises EXCEPT ![c] = "fulfilled"]
    /\ UNCHANGED <<waits, monitor, deductions, download, inbound, started, admission, user, pipeline, run, analysisResult, batchPromises, batchResults,
                   deduct, rendered, handlers, clock, faults, hist>>

\* One clip: the row is inserted, sqsClient.send throws; the promise rejects.
Phase3SendFails(c) ==
    /\ Phase3Pending(c)
    /\ c \notin DOMAIN generated_clips
    /\ Fault
    /\ generated_clips' = (c :> "QUEUED") @@ generated_clips
    /\ sqsPromises' = [sqsPromises EXCEPT ![c] = "rejected"]
    /\ UNCHANGED <<waits, monitor, deductions, download, inbound, started, admission, user, pipeline, sqs, run, analysisResult, batchPromises, batchResults,
                   deduct, rendered, handlers, clock, hist>>

\* One clip whose row exists already: the insert violates
\* UNIQUE(run_id, clip_index), clipError is set and the promise rejects.
Phase3InsertRejected(c) ==
    /\ Phase3Pending(c)
    /\ c \in DOMAIN generated_clips
    /\ sqsPromises' = [sqsPromises EXCEPT ![c] = "rejected"]
    /\ UNCHANGED <<waits, monitor, deductions, download, inbound, started, admission, user, pipeline, generated_clips, sqs, run, analysisResult,
                   batchPromises, batchResults, deduct, rendered, handlers, clock,
                   faults, hist>>

\* Promise.all(sqsPromises) fulfils: the step returns.
Phase3Returns ==
    /\ run.pc = "phase3-remotion-rendering" /\ run.at = "await"
    /\ \A c \in DOMAIN sqsPromises : sqsPromises[c] = "fulfilled"
    /\ sqsPromises' = <<>>
    /\ hist' = [hist EXCEPT !.dispatched = TRUE]
    /\ StepDone
    /\ UNCHANGED <<waits, monitor, deductions, download, inbound, started, admission, user, pipeline, generated_clips, sqs, analysisResult, batchPromises,
                   batchResults, deduct, rendered, handlers, clock, faults>>

\* Promise.all(sqsPromises) rejects with the first rejection: the step throws and
\* the promises still pending are abandoned.
Phase3Throws ==
    /\ run.pc = "phase3-remotion-rendering" /\ run.at = "await"
    /\ \E c \in DOMAIN sqsPromises : sqsPromises[c] = "rejected"
    /\ sqsPromises' = <<>>
    /\ StepThrows(TRUE)
    /\ UNCHANGED <<waits, monitor, deductions, download, inbound, started, admission, user, pipeline, generated_clips, sqs, analysisResult, batchPromises,
                   batchResults, deduct, rendered, handlers, clock, faults, hist>>

\* Promise.race: the 90-second sqsTimeout rejects first; the step throws and
\* the promises still pending are abandoned.
Phase3TimesOut ==
    /\ run.pc = "phase3-remotion-rendering" /\ run.at = "await"
    /\ \E c \in DOMAIN sqsPromises : sqsPromises[c] = "pending"
    /\ Fault
    /\ sqsPromises' = <<>>
    /\ StepThrows(TRUE)
    /\ UNCHANGED <<waits, monitor, deductions, download, inbound, started, admission, user, pipeline, generated_clips, sqs, analysisResult, batchPromises,
                   batchResults, deduct, rendered, handlers, clock, hist>>

\* ----------------------------------- deduct-credits (8), /api/deduct-credits
\* A charge of one credit for each batch instead of one for each clip.
creditsToDeductPerBatch == Len(batchResults)

\* const creditsToDeduct = totalClipsProcessed
creditsToDeduct == totalClipsProcessed

\* STEP 8 sends POST /api/deduct-credits {userId, credits, reason}.
DeductCredits ==
    /\ AtStep("deduct-credits")
    /\ deduct' = [IdleRoute EXCEPT !.pc = "select", !.credits = creditsToDeduct]
    /\ run' = [run EXCEPT !.at = "await"]
    /\ UNCHANGED <<waits, monitor, deductions, download, inbound, started, admission, user, pipeline, generated_clips, sqs, analysisResult, batchPromises,
                   batchResults, sqsPromises, rendered, handlers, clock, faults,
                   hist>>

\* The route reads the profile; currentCredits < credits answers 400.
RouteSelectProfile ==
    /\ deduct.pc = "select"
    /\ deduct' = [deduct EXCEPT
            !.currentCredits = user.credits,
            !.total_credits_used = user.total_credits_used,
            !.pc = IF user.credits < deduct.credits THEN "status-400" ELSE "update"]
    /\ UNCHANGED <<waits, monitor, deductions, download, inbound, started, admission, user, pipeline, generated_clips, sqs, run, analysisResult,
                   batchPromises, batchResults, sqsPromises, rendered, handlers, clock,
                   faults, hist>>

\* The route writes credits = currentCredits - credits and answers 200.
RouteUpdateProfile ==
    /\ deduct.pc = "update"
    /\ user' = [credits |-> deduct.currentCredits - deduct.credits,
                total_credits_used |-> deduct.total_credits_used + deduct.credits]
    /\ deduct' = [deduct EXCEPT !.pc = "status-200"]
    /\ hist' = [hist EXCEPT !.settlements = @ + 1]
    /\ UNCHANGED <<waits, monitor, deductions, download, inbound, started, admission, pipeline, generated_clips, sqs, run, analysisResult, batchPromises,
                   batchResults, sqsPromises, rendered, handlers, clock, faults>>

\* STEP 8 receives 200: the step returns.
DeductCreditsOk ==
    /\ run.pc = "deduct-credits" /\ run.at = "await"
    /\ deduct.pc = "status-200"
    /\ deduct' = IdleRoute
    /\ StepDone
    /\ UNCHANGED <<waits, monitor, deductions, download, inbound, started, admission, user, pipeline, generated_clips, sqs, analysisResult, batchPromises,
                   batchResults, sqsPromises, rendered, handlers, clock, faults,
                   hist>>

\* STEP 8 receives 400 'Insufficient credits': !creditResponse.ok, the step throws.
DeductCreditsRefused ==
    /\ run.pc = "deduct-credits" /\ run.at = "await"
    /\ deduct.pc = "status-400"
    /\ deduct' = IdleRoute
    /\ StepThrows(TRUE)
    /\ UNCHANGED <<waits, monitor, deductions, download, inbound, started, admission, user, pipeline, generated_clips, sqs, analysisResult, batchPromises,
                   batchResults, sqsPromises, rendered, handlers, clock, faults,
                   hist>>

\* The route has answered 200 but the answer never reaches the step (the
\* connection drops): fetch rejects and the step throws.
DeductCreditsResponseLost ==
    /\ run.pc = "deduct-credits" /\ run.at = "await"
    /\ deduct.pc = "status-200"
    /\ Fault
    /\ deduct' = IdleRoute
    /\ StepThrows(TRUE)
    /\ UNCHANGED <<waits, monitor, deductions, download, inbound, started, admission, user, pipeline, generated_clips, sqs, analysisResult, batchPromises,
                   batchResults, sqsPromises, rendered, handlers, clock, hist>>

\* STEP 9
FinalPipelineUpdate ==
    /\ AtStep("final-pipeline-update")
    /\ UpdatePipeline([status |-> "completed", phase3_completed_at |-> clock])
    /\ clock' = clock + 1
    /\ StepDone
    /\ UNCHANGED <<waits, monitor, deductions, download, inbound, started, admission, user, generated_clips, sqs, analysisResult, batchPromises,
                   batchResults, sqsPromises, deduct, rendered, handlers,
                   faults, hist>>

\* ------------------------------------------------ render backend and events
NewHandler(c, outcome) ==
    [clipId |-> c, status |-> outcome, pc |-> "update-final-status",
     completedClips |-> 0, failedClips |-> 0]

\* The render of a dispatched clip ends; remotion.render.complete is sent with
\* status success or failed and starts a handleRenderCompleted run.
RenderCompletes(c, outcome) ==
    /\ c \in DOMAIN sqs
    /\ c \notin DOMAIN rendered
    /\ rendered' = (c :> outcome) @@ rendered
    /\ handlers' = handlers (+) SetToBag({NewHandler(c, outcome)})
    /\ UNCHANGED <<waits, monitor, deductions, download, inbound, started, admission, user, pipeline, generated_clips, sqs, run, analysisResult,
                   batchPromises, batchResults, sqsPromises, deduct, clock, faults, hist>>

\* ---------------------------------------------------- handleRenderCompleted
Replace(h, g) == (handlers (-) SetToBag({h})) (+) SetToBag({g})

CountStatus(st) == Cardinality({c \in DOMAIN generated_clips : generated_clips[c] = st})

\* A completion test that is satisfied by the first finished clip.
PipelineFinishedAnyClip(totalClips, finishedClips) == finishedClips >= 1

\* if (finishedClips === totalClips)
PipelineFinished(totalClips, finishedClips) == finishedClips = totalClips

\* step "update-final-status": the clip row becomes COMPLETED or FAILED.
UpdateFinalStatus(h) ==
    /\ h.pc = "update-final-status"
    /\ generated_clips' = [c \in DOMAIN generated_clips |->
            IF c = h.clipId
            THEN (IF h.status = "success" THEN "COMPLETED" ELSE "FAILED")
            ELSE generated_clips[c]]
    /\ handlers' = Replace(h, [h EXCEPT !.pc = "check-pipeline-completion"])
    /\ UNCHANGED <<waits, monitor, deductions, download, inbound, started, admission, user, pipeline, sqs, run, analysisResult, batchPromises,
                   batchResults, sqsPromises, deduct, rendered, clock, faults,
                   hist>>

\* step "check-pipeline-completion", the select: all clips of the pipeline are
\* read and counted; the run is over unless every clip is finished.
CheckPipelineCompletion(h) ==
    /\ h.pc = "check-pipeline-completion"
    /\ LET totalClips == Cardinality(DOMAIN generated_clips)
           completedClips == CountStatus("COMPLETED")
           failedClips == CountStatus("FAILED")
       IN  IF PipelineFinished(totalClips, completedClips + failedClips)
           THEN /\ handlers' = Replace(h, [h EXCEPT !.pc = "update-pipeline",
                                                     !.completedClips = completedClips,
                                                     !.failedClips = failedClips])
                /\ hist' = [hist EXCEPT !.observedDone = TRUE]
           ELSE /\ handlers' = handlers (-) SetToBag({h})
                /\ hist' = hist
    /\ UNCHANGED <<waits, monitor, deductions, download, inbound, started, admission, user, pipeline, generated_clips, sqs, run, analysisResult,
                   batchPromises, batchResults, sqsPromises, deduct, rendered, clock,
                   faults>>

\* step "check-pipeline-completion", the update: status completed with the
\* counts of the select.
MarkPipelineCompleted(h) ==
    /\ h.pc = "update-pipeline"
    /\ UpdatePipeline([status |-> "completed", phase3_completed_at |-> clock,
                       successful_clips |-> h.completedClips,
                       failed_clips |-> h.failedClips])
    /\ clock' = clock + 1
    /\ handlers' = handlers (-) SetToBag({h})
    /\ hist' = [hist EXCEPT !.flips = @ + 1]
    /\ UNCHANGED <<waits, monitor, deductions, download, inbound, started, admission, user, generated_clips, sqs, run, analysisResult, batchPromises,
                   batchResults, sqsPromises, deduct, rendered, faults>>

handleRenderCompleted ==
    \E h \in BagToSet(handlers) :
        \/ UpdateFinalStatus(h)
        \/ CheckPipelineCompletion(h)
        \/ MarkPipelineCompleted(h)

\* ------------------------------------------------------------ specification
Phase2BatchProcessing ==
    \/ Phase2Start
    \/ \E b \in DOMAIN batchPromises : BatchSucceeds(b)
    \/ \E b \in DOMAIN batchPromises : BatchSucceedsPartly(b)
    \/ \E b \in DOMAIN batchPromises : BatchFails(b)
    \/ AwaitBatchGroup
    \/ AwaitBatchGroupRejects
    \/ Phase2Returns

Phase3RemotionRendering ==
    \/ Phase3Start
    \/ Phase3Skips
    \/ \E c \in DOMAIN sqsPromises : Phase3ClipQueued(c)
    \/ \E c \in DOMAIN sqsPromises : Phase3SendFails(c)
    \/ \E c \in DOMAIN sqsPromises : Phase3InsertRejected(c)
    \/ Phase3Returns
    \/ Phase3Throws
    \/ Phase3TimesOut

Next ==
    \/ HandleYoutubeVideoProcess
    \/ HandleNoCredits
    \/ UpdatePipelineStatus
    \/ AnalysisSucceeds
    \/ AnalysisClientError
    \/ AnalysisServerError
    \/ AnalysisStatusError
    \/ AnalysisTimeout
    \/ UpdatePipelineAfterAnalysis
    \/ Phase2BatchProcessing
    \/ UpdatePipelineAfterBatches
    \/ Phase3RemotionRendering
    \/ DeductCredits
    \/ RouteSelectProfile
    \/ RouteUpdateProfile
    \/ DeductCreditsOk
    \/ DeductCreditsRefused
    \/ DeductCreditsResponseLost
    \/ FinalPipelineUpdate
    \/ \E c \in DOMAIN sqs : \E o \in {"success", "failed"} : RenderCompletes(c, o)
    \/ handleRenderCompleted

Spec == Init /\ [][Next]_vars

\* Inngest runs every step that is ready: no enabled step waits for ever.
FairSpec == Spec /\ WF_vars(Next)

\* ------------------------------------------- the aggregator after dispatch
\* The state in which step 7 has just returned for n clips, all of them
\* processed by one batch: n rows QUEUED, n messages sent, no event handled yet.
Dispatched(n, credits) ==
    /\ user = [credits |-> credits, total_credits_used |-> 0]
    /\ pipeline = [NewPipeline EXCEPT
            !.status = "remotion_rendering_queued",
            !.phase1_started_at = 1, !.phase1_completed_at = 2,
            !.phase2_started_at = 3, !.phase2_completed_at = 4,
            !.phase3_started_at = 5,
            !.total_clips = n, !.successful_clips = n]
    /\ generated_clips = [c \in 0..(n - 1) |-> "QUEUED"]
    /\ sqs = [c \in 0..(n - 1) |-> 1]
    /\ run = [pc |-> "deduct-credits", attempt |-> 0, at |-> "start", i |-> 0]
    /\ analysisResult = n
    /\ batchPromises = <<>>
    /\ batchResults = <<BatchResultOf([processed_clips |-> 0..(n - 1), failed_clips |-> {}])>>
    /\ sqsPromises = <<>>
    /\ deduct = IdleRoute
    /\ rendered = <<>>
    /\ handlers = EmptyBag
    /\ clock = 6
    /\ faults = 0
    /\ hist = [NewHist EXCEPT !.credits0 = credits, !.dispatched = TRUE]
    /\ NoAdmission
    /\ started = {}
    /\ download = NoDownload
    /\ deductions = NoDeductions
    /\ monitor = NoMonitor
    /\ waits = NoWaits
    /\ NoInbound

InitAggregator == \E n \in 1..MaxMoments : \E c \in 1..MaxCredits : Dispatched(n, c)

\* The render backend and the completion handlers alone: the orchestrator run
\* has not yet taken its next step.
NextAggregator ==
    \/ \E c \in DOMAIN sqs : \E o \in {"success", "failed"} : RenderCompletes(c, o)
    \/ handleRenderCompleted

SpecAggregator == InitAggregator /\ [][NextAggregator]_vars

\* ------------------------------------------------- the end-to-end scenario
InitE2E == InitWith(10)

\* Success notifications for clips 2, 1, 3 (clip_index 1, 0, 2), in this order.
DeliveryOrder == <<1, 0, 2>>

\* The scenario's renders end after the dispatch step has sent its messages.
RenderCompletesInOrder ==
    \E k \in DOMAIN DeliveryOrder :
        /\ hist.dispatched
        /\ Cardinality(DOMAIN rendered) = k - 1
        /\ RenderCompletes(DeliveryOrder[k], "success")

\* The run in which no external service fails, the analysis yields 3 moments
\* and every render succeeds.
NextE2E ==
    \/ HandleYoutubeVideoProcess
    \/ UpdatePipelineStatus
    \/ AnalysisSucceedsWith(3)
    \/ UpdatePipelineAfterAnalysis
    \/ Phase2Start
    \/ \E b \in DOMAIN batchPromises : BatchSucceeds(b)
    \/ AwaitBatchGroup
    \/ Phase2Returns
    \/ UpdatePipelineAfterBatches
    \/ Phase3Start
    \/ \E c \in DOMAIN sqsPromises : Phase3ClipQueued(c)
    \/ Phase3Returns
    \/ DeductCredits
    \/ RouteSelectProfile
    \/ RouteUpdateProfile
    \/ DeductCreditsOk
    \/ FinalPipelineUpdate
    \/ RenderCompletesInOrder
    \/ handleRenderCompleted

SpecE2E == InitE2E /\ [][NextE2E]_vars

\* ------------------------------------------------ phase 2 with many batches
\* The state in which step 4 has just returned for n viral moments.
Analysed(n, credits) ==
    /\ user = [credits |-> credits, total_credits_used |-> 0]
    /\ pipeline = [NewPipeline EXCEPT
            !.status = "analysis_completed",
            !.phase1_started_at = 1, !.phase1_completed_at = 2,
            !.total_clips = n]
    /\ generated_clips = <<>>
    /\ sqs = <<>>
    /\ run = [pc |-> "phase2-batch-processing", attempt |-> 0, at |-> "start", i |-> 0]
    /\ analysisResult = n
    /\ batchPromises = <<>>
    /\ batchResults = <<>>
    /\ sqsPromises = <<>>
    /\ deduct = IdleRoute
    /\ rendered = <<>>
    /\ handlers = EmptyBag
    /\ clock = 3
    /\ faults = 0
    /\ hist = [NewHist EXCEPT !.credits0 = credits]
    /\ NoAdmission
    /\ started = {}
    /\ download = NoDownload
    /\ deductions = NoDeductions
    /\ monitor = NoMonitor
    /\ waits = NoWaits
    /\ NoInbound

InitBatch == \E n \in (clipsPerBatch + 1)..MaxCandidates : Analysed(n, MaxCredits)

NextBatch ==
    \/ Phase2BatchProcessing
    \/ UpdatePipelineAfterBatches

SpecBatch == InitBatch /\ [][NextBatch]_vars

\* ------------------------------------- the event-driven phase 1 and phase 2
\* phase1OrchestratorEventDriven and phase2BatchProcessorEventDriven, both
\* retries: 0.  Their pipeline updates do not look at the error supabase
\* returns: an update that fails leaves the row as it was and the step returns.
EventStepOrder ==
    <<"phase1/update-pipeline-status", "phase1/trigger-modal-phase1",
      "phase1/wait-for-modal-phase1-webhook", "phase1/update-pipeline-phase1-complete",
      "phase1/trigger-phase2", "phase2/update-pipeline-status-phase2",
      "phase2/create-batches", "phase2/trigger-batch-processing",
      "phase2/wait-for-batch-webhooks", "phase2/aggregate-batch-results",
      "phase2/trigger-phase3">>

EventNextStep(s) ==
    LET i == CHOOSE k \in DOMAIN EventStepOrder : EventStepOrder[k] = s
    IN  IF i = Len(EventStepOrder) THEN "returned" ELSE EventStepOrder[i + 1]

EventStepDone == run' = [pc |-> EventNextStep(run.pc), attempt |-> 0, at |-> "start", i |-> 0]

EventStepThrows == run' = [run EXCEPT !.pc = "function-failed", !.at = run.pc, !.i = 0]

\* A step whose only effect is one unchecked pipeline update that succeeds.
EventUpdate(s, fields) ==
    /\ AtStep(s)
    /\ UpdatePipeline(fields)
    /\ clock' = clock + 1
    /\ EventStepDone
    /\ UNCHANGED <<waits, monitor, deductions, download, inbound, started, admission, user, generated_clips, sqs, analysisResult, batchPromises,
                   batchResults, sqsPromises, deduct, rendered, handlers, faults, hist>>

\* The same step when the update fails: the error is dropped, the step returns.
EventUpdateLost(s) ==
    /\ AtStep(s)
    /\ Fault
    /\ clock' = clock + 1
    /\ EventStepDone
    /\ UNCHANGED <<waits, monitor, deductions, download, inbound, started, admission, user, pipeline, generated_clips, sqs, analysisResult, batchPromises,
                   batchResults, sqsPromises, deduct, rendered, handlers, hist>>

Phase1UpdateStatus ==
    EventUpdate("phase1/update-pipeline-status",
                [status |-> "phase1_processing", phase1_started_at |-> clock])

Phase1UpdateStatusLost == EventUpdateLost("phase1/update-pipeline-status")

\* trigger-modal-phase1: the backend accepts the request.
TriggerModalPhase1 ==
    /\ AtStep("phase1/trigger-modal-phase1")
    /\ EventStepDone
    /\ UNCHANGED <<waits, monitor, deductions, download, inbound, started, admission, user, pipeline, generated_clips, sqs, analysisResult, batchPromises,
                   batchResults, sqsPromises, deduct, rendered, handlers, clock,
                   faults, hist>>

\* trigger-modal-phase1: !response.ok, the step throws.
TriggerModalPhase1Fails ==
    /\ AtStep("phase1/trigger-modal-phase1")
    /\ Fault
    /\ EventStepThrows
    /\ UNCHANGED <<waits, monitor, deductions, download, inbound, started, admission, user, pipeline, generated_clips, sqs, analysisResult, batchPromises,
                   batchResults, sqsPromises, deduct, rendered, handlers, clock, hist>>

\* waitForEvent returns modal.phase1.completed with n viral moments.
Phase1WebhookArrives ==
    /\ AtStep("phase1/wait-for-modal-phase1-webhook")
    /\ \E n \in 0..MaxMoments : analysisResult' = n
    /\ EventStepDone
    /\ UNCHANGED <<waits, monitor, deductions, download, inbound, started, admission, user, pipeline, generated_clips, sqs, batchPromises, batchResults,
                   sqsPromises, deduct, rendered, handlers, clock, faults, hist>>

\* waitForEvent returns null after 20 minutes: status failed, then the throw.
Phase1WebhookTimeout ==
    /\ AtStep("phase1/wait-for-modal-phase1-webhook")
    /\ Fault
    /\ UpdatePipeline([status |-> "failed",
                       error_message |-> "Phase 1 analysis timed out after 20 minutes"])
    /\ EventStepThrows
    /\ UNCHANGED <<waits, monitor, deductions, download, inbound, started, admission, user, generated_clips, sqs, analysisResult, batchPromises,
                   batchResults, sqsPromises, deduct, rendered, handlers, clock, hist>>

Phase1UpdateComplete ==
    EventUpdate("phase1/update-pipeline-phase1-complete",
                [status |-> "phase1_completed", phase1_completed_at |-> clock])

Phase1UpdateCompleteLost == EventUpdateLost("phase1/update-pipeline-phase1-complete")

\* trigger-phase2 sends phase2.batch.start, which starts the phase 2 function.
TriggerPhase2 ==
    /\ AtStep("phase1/trigger-phase2")
    /\ EventStepDone
    /\ UNCHANGED <<waits, monitor, deductions, download, inbound, started, admission, user, pipeline, generated_clips, sqs, analysisResult, batchPromises,
                   batchResults, sqsPromises, deduct, rendered, handlers, clock,
                   faults, hist>>

Phase2UpdateStatus ==
    EventUpdate("phase2/update-pipeline-status-phase2",
                [status |-> "phase2_processing", phase2_started_at |-> clock])

Phase2UpdateStatusLost == EventUpdateLost("phase2/update-pipeline-status-phase2")

\* create-batches: the same slices as the unified function, one entry a batch.
CreateBatches ==
    /\ AtStep("phase2/create-batches")
    /\ batchPromises' = [b \in 1..Len(BatchGroups) |-> PendingPromise]
    /\ EventStepDone
    /\ UNCHANGED <<waits, monitor, deductions, download, inbound, started, admission, user, pipeline, generated_clips, sqs, analysisResult, batchResults,
                   sqsPromises, deduct, rendered, handlers, clock, faults, hist>>

\* trigger-batch-processing, one turn of the loop: the backend accepts batch
\* run.i + 1.
TriggerBatch ==
    /\ AtStep("phase2/trigger-batch-processing")
    /\ run.i < Len(batchPromises)
    /\ batchPromises' = [batchPromises EXCEPT ![run.i + 1].state = "triggered"]
    /\ run' = [run EXCEPT !.i = @ + 1]
    /\ UNCHANGED <<waits, monitor, deductions, download, inbound, started, admission, user, pipeline, generated_clips, sqs, analysisResult, batchResults,
                   sqsPromises, deduct, rendered, handlers, clock, faults, hist>>

\* One turn of the loop, !response.ok: "continue", no trigger is recorded.
TriggerBatchFails ==
    /\ AtStep("phase2/trigger-batch-processing")
    /\ run.i < Len(batchPromises)
    /\ Fault
    /\ batchPromises' = [batchPromises EXCEPT ![run.i + 1].state = "dropped"]
    /\ run' = [run EXCEPT !.i = @ + 1]
    /\ UNCHANGED <<waits, monitor, deductions, download, inbound, started, admission, user, pipeline, generated_clips, sqs, analysisResult, batchResults,
                   sqsPromises, deduct, rendered, handlers, clock, hist>>

TriggerBatchesReturns ==
    /\ AtStep("phase2/trigger-batch-processing")
    /\ run.i >= Len(batchPromises)
    /\ EventStepDone
    /\ UNCHANGED <<waits, monitor, deductions, download, inbound, started, admission, user, pipeline, generated_clips, sqs, analysisResult, batchPromises,
                   batchResults, sqsPromises, deduct, rendered, handlers, clock,
                   faults, hist>>

\* for (const trigger of batchTriggers): the trigger waited for next.
Triggered == {b \in DOMAIN batchPromises : batchPromises[b].state = "triggered"}

NextTrigger == CHOOSE b \in Triggered : \A c \in Triggered : b <= c

\* waitForEvent returns modal.phase2.completed of the batch, every moment processed.
BatchWebhookArrives ==
    /\ AtStep("phase2/wait-for-batch-webhooks")
    /\ Triggered # {}
    /\ batchPromises' = [batchPromises EXCEPT ![NextTrigger] =
            [state |-> "fulfilled",
             processed_clips |-> Range(BatchGroups[NextTrigger].viral_moments),
             failed_clips |-> {}]]
    /\ UNCHANGED <<waits, monitor, deductions, download, inbound, started, admission, user, pipeline, generated_clips, sqs, run, analysisResult,
                   batchResults, sqsPromises, deduct, rendered, handlers, clock,
                   faults, hist>>

\* waitForEvent returns null: a result with status "timeout" and empty lists.
BatchWebhookTimeout ==
    /\ AtStep("phase2/wait-for-batch-webhooks")
    /\ Triggered # {}
    /\ Fault
    /\ batchPromises' = [batchPromises EXCEPT ![NextTrigger].state = "timeout"]
    /\ UNCHANGED <<waits, monitor, deductions, download, inbound, started, admission, user, pipeline, generated_clips, sqs, run, analysisResult,
                   batchResults, sqsPromises, deduct, rendered, handlers, clock, hist>>

WaitForBatchWebhooksReturns ==
    /\ AtStep("phase2/wait-for-batch-webhooks")
    /\ Triggered = {}
    /\ EventStepDone
    /\ UNCHANGED <<waits, monitor, deductions, download, inbound, started, admission, user, pipeline, generated_clips, sqs, analysisResult, batchPromises,
                   batchResults, sqsPromises, deduct, rendered, handlers, clock,
                   faults, hist>>

\* The results of step "wait-for-batch-webhooks": one per trigger.
WebhookResults ==
    LET waited == SelectSeq(batchPromises, LAMBDA p : p.state \in {"fulfilled", "timeout"})
    IN  [k \in DOMAIN waited |-> BatchResultOf(waited[k])]

\* aggregate-batch-results: the totals are computed and written (unchecked).
AggregateBatchResults ==
    /\ AtStep("phase2/aggregate-batch-results")
    /\ batchResults' = WebhookResults
    /\ UpdatePipeline([status |-> "phase2_completed", phase2_completed_at |-> clock,
            successful_clips |-> SumSeq([k \in DOMAIN WebhookResults |->
                                            WebhookResults[k].clips_processed]),
            failed_clips |-> SumSeq([k \in DOMAIN WebhookResults |->
                                            WebhookResults[k].clips_failed])])
    /\ clock' = clock + 1
    /\ EventStepDone
    /\ UNCHANGED <<waits, monitor, deductions, download, inbound, started, admission, user, generated_clips, sqs, analysisResult, batchPromises,
                   sqsPromises, deduct, rendered, handlers, faults, hist>>

AggregateBatchResultsLost ==
    /\ AtStep("phase2/aggregate-batch-results")
    /\ Fault
    /\ batchResults' = WebhookResults
    /\ clock' = clock + 1
    /\ EventStepDone
    /\ UNCHANGED <<waits, monitor, deductions, download, inbound, started, admission, user, pipeline, generated_clips, sqs, analysisResult, batchPromises,
                   sqsPromises, deduct, rendered, handlers, hist>>

\* trigger-phase3 sends phase3.remotion.start when there are processed clips.
TriggerPhase3 ==
    /\ AtStep("phase2/trigger-phase3")
    /\ allProcessedClips # {}
    /\ run' = [run EXCEPT !.pc = "returned", !.at = "phase3.remotion.start"]
    /\ UNCHANGED <<waits, monitor, deductions, download, inbound, started, admission, user, pipeline, generated_clips, sqs, analysisResult, batchPromises,
                   batchResults, sqsPromises, deduct, rendered, handlers, clock,
                   faults, hist>>

SkipPhase3 ==
    /\ AtStep("phase2/trigger-phase3")
    /\ allProcessedClips = {}
    /\ run' = [run EXCEPT !.pc = "returned"]
    /\ UNCHANGED <<waits, monitor, deductions, download, inbound, started, admission, user, pipeline, generated_clips, sqs, analysisResult, batchPromises,
                   batchResults, sqsPromises, deduct, rendered, handlers, clock,
                   faults, hist>>

InitEvent == \E c \in 1..MaxCredits : InitAt(c, "phase1/update-pipeline-status")

NextEvent ==
    \/ Phase1UpdateStatus
    \/ Phase1UpdateStatusLost
    \/ TriggerModalPhase1
    \/ TriggerModalPhase1Fails
    \/ Phase1WebhookArrives
    \/ Phase1WebhookTimeout
    \/ Phase1UpdateComplete
    \/ Phase1UpdateCompleteLost
    \/ TriggerPhase2
    \/ Phase2UpdateStatus
    \/ Phase2UpdateStatusLost
    \/ CreateBatches
    \/ TriggerBatch
    \/ TriggerBatchFails
    \/ TriggerBatchesReturns
    \/ BatchWebhookArrives
    \/ BatchWebhookTimeout
    \/ WaitForBatchWebhooksReturns
    \/ AggregateBatchResults
    \/ AggregateBatchResultsLost
    \/ TriggerPhase3
    \/ SkipPhase3

SpecEvent == InitEvent /\ [][NextEvent]_vars

\* ================================================================ properties
UnfinishedClips == {c \in DOMAIN generated_clips :
                        generated_clips[c] \notin FinishedClipStatuses}

AllNotificationsProcessed ==
    /\ DOMAIN rendered = DOMAIN generated_clips
    /\ handlers = EmptyBag

\* C1: whatever the deliveries and step retries, the credit settlement of the
\* pipeline executes exactly once, and when the run has returned the balance
\* is the initial balance minus the number of clips produced.
C1_ExactlyOnceSettlement ==
    /\ totalClipsProcessed > 0 => hist.settlements <= 1
    /\ run.pc = "returned" => user.credits = hist.credits0 - totalClipsProcessed

\* C2: when the completion handlers of several clips of one pipeline run
\* concurrently, the flip of the pipeline to completed is executed by at most
\* one of them.
C2_CompletionExactlyOnce == hist.flips <= 1

C4_SettlementAfterAggregation ==
    (allProcessedClips # {} /\ (hist.settlements > 0 \/ pipeline.status = "completed"))
        => hist.observedDone

C6_TerminalIsFinal ==
    [][pipeline.status \in TerminalStatuses => pipeline'.status = pipeline.status]_vars

\* C7: under fair scheduling every pipeline eventually has a terminal status.
C7_EventuallyTerminal == <>(pipeline.status \in TerminalStatuses)

\* C9: when the batch phase has failed for good, the status is failed and the
\* failing phase and the error text are recorded.
C9_FailurePersisted ==
    (run.pc = "function-failed" /\ run.at = "phase2-batch-processing") =>
        /\ pipeline.status = "failed"
        /\ pipeline.error_phase # ""
        /\ pipeline.error_message # ""

\* C10: when the batch step stops waiting while one batch has failed upstream
\* and a sibling has succeeded, it returns a result, and the result counts
\* every candidate as processed or failed.
C10_BatchIsolation ==
    [][(/\ run.pc = "phase2-batch-processing" /\ run.at = "await"
        /\ run'.at = "start"
        /\ \E b \in DOMAIN batchPromises : batchPromises[b].state = "rejected"
        /\ \E b \in DOMAIN batchPromises : batchPromises[b].state = "fulfilled")
       => (/\ run'.pc = "update-pipeline-after-batches"
           /\ SumSeq([b \in DOMAIN batchResults' |->
                        batchResults'[b].clips_processed + batchResults'[b].clips_failed])
                = analysisResult)]_vars

\* C8: whenever phase2_started_at is set, phase1_completed_at was persisted
\* earlier; whenever phase2_completed_at is set, phase2_started_at was.
C8_PhaseOrder ==
    /\ pipeline.phase2_started_at # 0 =>
        /\ pipeline.phase1_completed_at # 0
        /\ pipeline.phase1_completed_at < pipeline.phase2_started_at
    /\ pipeline.phase2_completed_at # 0 =>
        /\ pipeline.phase2_started_at # 0
        /\ pipeline.phase2_started_at < pipeline.phase2_completed_at

\* The batch requests whose answer is outstanding.
InFlightBatches == {b \in DOMAIN batchPromises : batchPromises[b].state = "pending"}

\* C11: during the batch fan-out of the unified function, never more than
\* maxConcurrentBatches batch requests are in flight.
C11_ConcurrencyCap ==
    run.pc = "phase2-batch-processing" =>
        Cardinality(InFlightBatches) <= maxConcurrentBatches

(***************************************************************************)
(* The admission route, POST /api/production-pipeline.  Every await of the *)
(* handler is a point where another request may run.                       *)
(***************************************************************************)

MaxPosts == 2
DailyLimit == 2
ConcurrentLimit == 2
GlobalCeiling == 8

Users == {"u1", "u2"}

\* The statuses getSystemMetrics counts as active.
CountedStatuses == {"pending", "processing"}

\* A request that has not been received yet.
IdlePost ==
    [pc |-> "idle", user_id |-> "none", quota |-> <<>>, metrics |-> <<>>,
     currentProfile |-> <<>>, status |-> 0, error |-> "none"]

\* getUserQuota: the quota columns of the user's row.
getUserQuota(userId) ==
    [daily_requests   |-> profiles[userId].daily_requests,
     daily_limit      |-> profiles[userId].daily_limit,
     concurrent_jobs  |-> profiles[userId].concurrent_jobs,
     concurrent_limit |-> profiles[userId].concurrent_limit,
     is_blocked       |-> profiles[userId].is_blocked]

\* The decision checkUserQuota takes on the row it has read.
checkUserQuota(userQuota) ==
    IF userQuota.is_blocked
    THEN [allowed |-> FALSE, reason |-> "Account is blocked"]
    ELSE IF userQuota.daily_requests >= userQuota.daily_limit
    THEN [allowed |-> FALSE, reason |-> "Daily request limit exceeded"]
    ELSE IF userQuota.concurrent_jobs >= userQuota.concurrent_limit
    THEN [allowed |-> FALSE, reason |-> "Concurrent job limit exceeded"]
    ELSE [allowed |-> TRUE, reason |-> "none"]

\* The number of rows of the pipelines table in one of the given statuses.
CountPipelines(statuses) ==
    BagCardinality([r \in {x \in BagToSet(pipelines) : x.status \in statuses} |->
                        pipelines[r]])

\* getSystemMetrics: the active pipelines and the health derived from them.
getSystemMetrics ==
    LET activePipelines == CountPipelines(CountedStatuses)
    IN  [activePipelines |-> activePipelines,
         systemHealth    |-> IF activePipelines < GlobalCeiling THEN "healthy"
                                                               ELSE "degraded"]

\* The decision checkSystemCapacity takes on the metrics it has read.
checkSystemCapacity(systemMetrics) ==
    IF systemMetrics.activePipelines >= GlobalCeiling
    THEN [allowed |-> FALSE, reason |-> "System at capacity. Please try again later."]
    ELSE IF systemMetrics.systemHealth # "healthy"
    THEN [allowed |-> FALSE,
          reason |-> "System is currently unhealthy. Please try again later."]
    ELSE [allowed |-> TRUE, reason |-> "none"]

\* The request answers and ends.
Respond(p, status, error) ==
    [posts[p] EXCEPT !.pc = "responded", !.status = status, !.error = error]

\* POST, steps 1 and 2: the body is read and validated.
ReceivePost(p) ==
    /\ posts[p].pc = "idle"
    /\ \E userId \in Users \cup {"none"}, urlValid \in BOOLEAN :
           posts' = [posts EXCEPT ![p] =
               IF userId = "none" THEN Respond(p, 401, "User ID is required")
               ELSE IF ~urlValid THEN Respond(p, 400, "Invalid request data")
               ELSE [posts[p] EXCEPT !.pc = "check-user-quota", !.user_id = userId]]
    /\ UNCHANGED <<profiles, pipelines, events>>

\* A variant of step 3 that counts the request before it is checked.
PostCountThenCheckUserQuota(p) ==
    /\ posts[p].pc = "check-user-quota"
    /\ LET userQuota == getUserQuota(posts[p].user_id)
           quotaCheck == checkUserQuota(userQuota)
       IN  posts' = [posts EXCEPT ![p] =
               IF ~quotaCheck.allowed
               THEN [Respond(p, 429, quotaCheck.reason) EXCEPT !.quota = userQuota]
               ELSE [posts[p] EXCEPT !.pc = "check-system-capacity",
                                     !.quota = userQuota]]
    /\ profiles' = [profiles EXCEPT ![posts[p].user_id].daily_requests = @ + 1]
    /\ UNCHANGED <<pipelines, events>>

\* POST, step 3: checkUserQuota; a refusal answers 429.
PostCheckUserQuota(p) ==
    /\ posts[p].pc = "check-user-quota"
    /\ LET userQuota == getUserQuota(posts[p].user_id)
           quotaCheck == checkUserQuota(userQuota)
       IN  posts' = [posts EXCEPT ![p] =
               IF ~quotaCheck.allowed
               THEN [Respond(p, 429, quotaCheck.reason) EXCEPT !.quota = userQuota]
               ELSE [posts[p] EXCEPT !.pc = "check-system-capacity",
                                     !.quota = userQuota]]
    /\ UNCHANGED <<profiles, pipelines, events>>

\* POST, step 4: checkSystemCapacity; a refusal answers 503.
PostCheckSystemCapacity(p) ==
    /\ posts[p].pc = "check-system-capacity"
    /\ LET systemMetrics == getSystemMetrics
           systemCheck == checkSystemCapacity(systemMetrics)
       IN  posts' = [posts EXCEPT ![p] =
               IF ~systemCheck.allowed
               THEN [Respond(p, 503, systemCheck.reason) EXCEPT !.metrics = systemMetrics]
               ELSE [posts[p] EXCEPT !.pc = "create-pipeline-record",
                                     !.metrics = systemMetrics]]
    /\ UNCHANGED <<profiles, pipelines, events>>

\* POST, step 5: createPipelineRecord inserts the row, status pending.
createPipelineRecord(p) ==
    /\ posts[p].pc = "create-pipeline-record"
    /\ pipelines' = pipelines (+)
           SetToBag({[user_id |-> posts[p].user_id, status |-> "pending"]})
    /\ posts' = [posts EXCEPT ![p].pc = "update-user-quota"]
    /\ UNCHANGED <<profiles, events>>

\* POST, step 6, first half: updateUserQuota reads the current counters.
updateUserQuotaSelect(p) ==
    /\ posts[p].pc = "update-user-quota"
    /\ posts' = [posts EXCEPT ![p].pc = "update-user-quota-write",
                              ![p].currentProfile =
                                  [daily_requests  |-> profiles[posts[p].user_id].daily_requests,
                                   concurrent_jobs |-> profiles[posts[p].user_id].concurrent_jobs]]
    /\ UNCHANGED <<profiles, pipelines, events>>

\* POST, step 6, second half: updateUserQuota writes the counters it read,
\* each plus one.
updateUserQuotaUpdate(p) ==
    /\ posts[p].pc = "update-user-quota-write"
    /\ profiles' = [profiles EXCEPT
           ![posts[p].user_id].daily_requests = posts[p].currentProfile.daily_requests + 1,
           ![posts[p].user_id].concurrent_jobs = posts[p].currentProfile.concurrent_jobs + 1]
    /\ posts' = [posts EXCEPT ![p].pc = "inngest-send"]
    /\ UNCHANGED <<pipelines, events>>

\* POST, steps 7 and 8: the pipeline/start event is sent and the request
\* answers with success.
PostInngestSend(p) ==
    /\ posts[p].pc = "inngest-send"
    /\ events' = events \cup {p}
    /\ posts' = [posts EXCEPT ![p] = Respond(p, 200, "none")]
    /\ UNCHANGED <<profiles, pipelines>>

\* No pipeline function is running while the route is exercised.
NoRun ==
    /\ user = [credits |-> 0, total_credits_used |-> 0]
    /\ pipeline = NewPipeline
    /\ generated_clips = <<>>
    /\ sqs = <<>>
    /\ run = [pc |-> "idle", attempt |-> 0, at |-> "start", i |-> 0]
    /\ analysisResult = -1
    /\ batchPromises = <<>>
    /\ batchResults = <<>>
    /\ sqsPromises = <<>>
    /\ deduct = IdleRoute
    /\ rendered = <<>>
    /\ handlers = EmptyBag
    /\ clock = 1
    /\ faults = 0
    /\ hist = NewHist
    /\ started = {}

\* The user_profiles rows the route may meet.
ProfileRows ==
    [is_blocked : BOOLEAN, credits : 0..1,
     daily_requests : 0..DailyLimit, daily_limit : {DailyLimit},
     concurrent_jobs : 0..ConcurrentLimit, concurrent_limit : {ConcurrentLimit}]

InitAdmission ==
    /\ NoRun
    /\ NoInbound
    /\ download = NoDownload
    /\ deductions = NoDeductions
    /\ monitor = NoMonitor
    /\ waits = NoWaits
    /\ \E row \in ProfileRows :
           profiles = [u \in Users |->
               IF u = "u1" THEN row
               ELSE [is_blocked |-> FALSE, credits |-> 1,
                     daily_requests |-> 0, daily_limit |-> DailyLimit,
                     concurrent_jobs |-> 0, concurrent_limit |-> ConcurrentLimit]]
    /\ \E n \in (GlobalCeiling - MaxPosts)..GlobalCeiling :
           pipelines = IF n = 0 THEN EmptyBag
                       ELSE [r \in {[user_id |-> "other", status |-> "pending"]} |-> n]
    /\ posts = [p \in 1..MaxPosts |-> IdlePost]
    /\ events = {}

NextAdmission ==
    \E p \in 1..MaxPosts :
        /\ UNCHANGED <<user, pipeline, generated_clips, sqs, run, analysisResult,
                       batchPromises, batchResults, sqsPromises, deduct, rendered,
                       handlers, clock, faults, hist, started, inbound, download, deductions, monitor, waits>>
        /\ \/ ReceivePost(p)
           \/ PostCheckUserQuota(p)
           \/ PostCheckSystemCapacity(p)
           \/ createPipelineRecord(p)
           \/ updateUserQuotaSelect(p)
           \/ updateUserQuotaUpdate(p)
           \/ PostInngestSend(p)

SpecAdmission == InitAdmission /\ [][NextAdmission]_vars

\* The requests that passed both admission checks.
AdmittedPosts ==
    {p \in DOMAIN posts : posts[p].pc \in {"create-pipeline-record", "update-user-quota",
                               "update-user-quota-write", "inngest-send"}
                          \/ posts[p].status = 200}

\* The requests refused by one of the admission checks.
RejectedPosts == {p \in DOMAIN posts : posts[p].status \in {429, 503}}

\* The first of the five checks that fails, "none" when all hold.
FirstFailingCheck(blocked, credits, quota, activePipelines) ==
    IF blocked THEN "Account is blocked"
    ELSE IF ~(credits > 0) THEN "No credits"
    ELSE IF ~(quota.daily_requests < quota.daily_limit) THEN "Daily request limit exceeded"
    ELSE IF ~(quota.concurrent_jobs < quota.concurrent_limit)
    THEN "Concurrent job limit exceeded"
    ELSE IF ~(activePipelines < GlobalCeiling)
    THEN "System at capacity. Please try again later."
    ELSE "none"

\* C12: admission checks blocked, credit balance > 0, daily requests, concurrent
\* jobs and system-wide active pipelines in this order; a request is admitted
\* only when all five hold on what it read, and a refused one carries the
\* reason of the first failing check.
C12_AdmissionOrder ==
    \A p \in DOMAIN posts :
        LET u == posts[p].user_id
            active == IF posts[p].metrics = <<>> THEN 0
                      ELSE posts[p].metrics.activePipelines
            first == FirstFailingCheck(posts[p].quota.is_blocked, profiles[u].credits,
                                       posts[p].quota, active)
        IN  /\ p \in AdmittedPosts => first = "none"
            /\ p \in RejectedPosts => posts[p].error = first

\* C13: a step of a submission that admission has not let through, its refusal
\* included, creates no pipelines row, changes no quota counter and sends no
\* pipeline/start event; a refused request never has an event.
C13_RejectionMutatesNothing ==
    [][\A p \in DOMAIN posts :
           /\ (posts'[p] # posts[p] /\ p \notin AdmittedPosts')
                  => UNCHANGED <<profiles, pipelines, events>>
           /\ (p \in RejectedPosts' => p \notin events')]_vars

\* A request refused for a user at daily_requests = daily_limit.
C13_Witness ==
    \E p \in DOMAIN posts :
        /\ posts[p].status = 429
        /\ posts[p].error = "Daily request limit exceeded"
        /\ posts[p].quota.daily_requests = posts[p].quota.daily_limit

\* C14: every admitted submission raises daily_requests and concurrent_jobs of
\* its user by exactly one over the value the row holds when it writes, so k
\* concurrent submissions raise them by k, and its pipelines row exists.
C14_NoLostUpdate ==
    [][\A p \in DOMAIN posts :
           (posts[p].pc = "update-user-quota-write" /\ posts'[p].pc = "inngest-send") =>
               LET u == posts[p].user_id
               IN  /\ profiles'[u].daily_requests = profiles[u].daily_requests + 1
                   /\ profiles'[u].concurrent_jobs = profiles[u].concurrent_jobs + 1
                   /\ CopiesIn([user_id |-> u, status |-> "pending"], pipelines) > 0]_vars

\* The pipelines rows whose status is not terminal.
NonTerminalPipelines ==
    BagCardinality([r \in {x \in BagToSet(pipelines) : x.status \notin TerminalStatuses} |->
                        pipelines[r]])

\* C15: the pipelines in a non-terminal status never number more than the
\* global concurrency ceiling.
C15_GlobalCeiling == NonTerminalPipelines <= GlobalCeiling

\* ------------------------------------------------------ steps 1 to 6 alone
\* unifiedPipelineProcessor up to the end of the batch phase.
NextUpToBatches ==
    \/ HandleYoutubeVideoProcess
    \/ HandleNoCredits
    \/ UpdatePipelineStatus
    \/ AnalysisSucceeds
    \/ AnalysisClientError
    \/ AnalysisServerError
    \/ AnalysisStatusError
    \/ AnalysisTimeout
    \/ UpdatePipelineAfterAnalysis
    \/ Phase2BatchProcessing
    \/ UpdatePipelineAfterBatches

SpecUpToBatches == Init /\ [][NextUpToBatches]_vars

\* C16: a 401/403/4xx answer of the analysis call fails the run at once and the
\* step never runs again; a 5xx answer or network failure re-executes the step
\* while a retry remains, and the step is re-executed at most once.
C16_RetryClassification ==
    [][/\ AnalysisClientError =>
              run'.pc = "function-failed" /\ run'.at = "phase1-analysis"
       /\ AnalysisServerError =>
              IF run.attempt < Retries
              THEN run'.pc = "phase1-analysis" /\ run'.attempt = run.attempt + 1
              ELSE run'.pc = "function-failed"
       /\ run'.attempt <= 1
       /\ run.pc = "function-failed" => run'.pc = "function-failed"]_vars

\* The analysis call answered 5xx, was retried, and the retry failed for good
\* without any status written by the step.
C16_Witness ==
    /\ run.pc = "function-failed"
    /\ run.at = "phase1-analysis"
    /\ run.attempt = 1
    /\ pipeline.status = "processing"

\* C17: once the wait for a phase webhook has exceeded its deadline, the
\* pipeline status is timeout and the function has stopped.
C17_DeadlineIsTimeout ==
    /\ (run.pc = "function-failed" /\ run.at = "phase1/wait-for-modal-phase1-webhook")
           => pipeline.status = "timeout"
    /\ (\E b \in DOMAIN batchPromises : batchPromises[b].state = "timeout")
           => pipeline.status = "timeout" /\ run.pc = "function-failed"

\* C18: once the analysis backend has answered with status "error", the status
\* failed stays persisted and the run has stopped: the analysis step is not
\* scheduled again and no later step runs.
C18_AnalysisErrorIsTerminal ==
    pipeline.error_message = "analysis error" =>
        /\ pipeline.status = "failed"
        /\ run.pc = "function-failed"
        /\ run.at = "phase1-analysis"

\* C19: a render-dispatch step that failed after writing some clip rows is
\* re-executed to the state of one successful execution: one transient fault
\* never leaves the run failed at that step, and once the step has returned
\* every processed clip has its row and exactly one render message.
C19_IdempotentRetry ==
    /\ ~(/\ run.pc = "function-failed"
         /\ run.at = "phase3-remotion-rendering"
         /\ faults <= 1)
    /\ (hist.dispatched /\ run.pc # "function-failed") =>
           \A c \in allProcessedClips :
               c \in DOMAIN generated_clips /\ c \in DOMAIN sqs /\ sqs[c] = 1

\* ------------------------------------------- the render notification handlers
\* handleRenderStarted, step "update-clip-status": the clip row becomes
\* RENDERING, whatever it held.  The run starts when Inngest delivers the
\* remotion.render.started event of a dispatched clip.
handleRenderStarted(c) ==
    /\ c \in DOMAIN sqs
    /\ c \notin started
    /\ started' = started \cup {c}
    /\ generated_clips' = [generated_clips EXCEPT ![c] = "RENDERING"]
    /\ UNCHANGED <<waits, monitor, deductions, download, inbound, admission, user, pipeline, sqs, run, analysisResult, batchPromises,
                   batchResults, sqsPromises, deduct, rendered, handlers, clock,
                   faults, hist>>

\* A further remotion.render.complete event for a clip that already had one: a
\* duplicate when it carries the same status, a contradiction otherwise.
RenderCompletesAgain(c, outcome) ==
    /\ c \in DOMAIN rendered
    /\ Fault
    /\ handlers' = handlers (+) SetToBag({NewHandler(c, outcome)})
    /\ UNCHANGED <<waits, monitor, deductions, download, inbound, admission, started, user, pipeline, generated_clips, sqs, run,
                   analysisResult, batchPromises, batchResults, sqsPromises, deduct,
                   rendered, clock, hist>>

\* The notification handlers after dispatch, under at-least-once delivery.
NextNotify ==
    \/ \E c \in DOMAIN sqs : handleRenderStarted(c)
    \/ \E c \in DOMAIN sqs : \E o \in {"success", "failed"} : RenderCompletes(c, o)
    \/ \E c \in DOMAIN sqs : \E o \in {"success", "failed"} : RenderCompletesAgain(c, o)
    \/ handleRenderCompleted

InitNotify == \E n \in 1..MaxMoments : Dispatched(n, MaxCredits)

SpecNotify == InitNotify /\ [][NextNotify]_vars

\* The position of a clip status on the forward path.
ClipRank(st) ==
    CASE st = "PENDING" -> 0
      [] st = "QUEUED" -> 1
      [] st = "RENDERING" -> 2
      [] st = "COMPLETED" -> 3
      [] st = "FAILED" -> 3

\* C20: no step moves a clip's status backwards, and a clip that is COMPLETED
\* or FAILED keeps its status whatever notification is handled later.
C20_ClipStatusMonotonic ==
    [][\A c \in DOMAIN generated_clips :
           /\ ClipRank(generated_clips'[c]) >= ClipRank(generated_clips[c])
           /\ generated_clips[c] \in FinishedClipStatuses
                  => generated_clips'[c] = generated_clips[c]]_vars

\* C21: while the pipeline is in a terminal status, handling a completion
\* notification changes neither its status, its completion timestamp nor its
\* clip counters.
C21_TerminalNotificationNoOp ==
    [][pipeline.status \in TerminalStatuses =>
           /\ pipeline'.status = pipeline.status
           /\ pipeline'.phase3_completed_at = pipeline.phase3_completed_at
           /\ pipeline'.successful_clips = pipeline.successful_clips
           /\ pipeline'.failed_clips = pipeline.failed_clips]_vars

(***************************************************************************)
(* The inbound webhook routes and the delivery of the events they send.    *)
(***************************************************************************)

MaxWebhooks == 2
MaxDeductions == 2       \* concurrent requests to /api/deduct-credits
MaxAmount == 2           \* largest amount one request deducts
MaxBatches == 2          \* batches one event-driven phase 2 triggers

\* The value of a field the payload does not carry.
Absent == "absent"

\* The batch_index of a body or an event that carries none.
NoIndex == -1

\* The functions served by /api/inngest, each with the event that triggers it.
RegisteredFunctions ==
    {[fn |-> "rapidApiOrchestrator",            event |-> "youtube.video.process"],
     [fn |-> "phase1OrchestratorEventDriven",   event |-> "phase1.analysis.start"],
     [fn |-> "phase2BatchProcessorEventDriven", event |-> "phase2.batch.start"],
     [fn |-> "phase3RemotionProcessor",         event |-> "phase3.remotion.start"],
     [fn |-> "monitorRemotionProgress",         event |-> "remotion.progress.monitor"],
     [fn |-> "handleRenderStarted",             event |-> "remotion.render.started"],
     [fn |-> "handleRenderCompleted",           event |-> "remotion.render.complete"]}

\* A webhook request that has not been received yet.
IdleWebhook == [pc |-> "idle", payload |-> <<>>, status |-> 0]

\* The route answers with an HTTP status.
WebhookResponds(w, payload, status) ==
    [webhooks EXCEPT ![w] = [pc |-> "responded", payload |-> payload, status |-> status]]

\* inngest.send: the event joins those awaiting delivery.
InngestSend(w, name, data) ==
    Append(bus, [name |-> name, data |-> data, from |-> w, delivered |-> FALSE])

\* The bodies the render backend may post to /api/inngest/remotion-complete.
RemotionPayloads ==
    [type : {"success", "error"},
     clipId : {Absent, "clip-1"},
     pipelineId : {Absent, "pipeline-1"},
     userId : {Absent, "user-1"}]

\* POST /api/inngest/remotion-complete: 400 unless clipId, pipelineId and
\* userId are all present, else remotion.clip.completed is sent.
RemotionCompletePOST(w) ==
    /\ webhooks[w].pc = "idle"
    /\ \E webhookData \in RemotionPayloads :
           IF \/ webhookData.clipId = Absent
              \/ webhookData.pipelineId = Absent
              \/ webhookData.userId = Absent
           THEN /\ webhooks' = WebhookResponds(w, webhookData, 400)
                /\ bus' = bus
           ELSE /\ bus' = InngestSend(w, "remotion.clip.completed",
                                      [type |-> webhookData.type,
                                       clipId |-> webhookData.clipId,
                                       pipelineId |-> webhookData.pipelineId,
                                       userId |-> webhookData.userId])
                /\ webhooks' = WebhookResponds(w, webhookData, 200)
    /\ UNCHANGED invocations

\* Inngest delivers an event: every registered function it triggers starts a run.
InngestDelivers(i) ==
    /\ ~bus[i].delivered
    /\ bus' = [bus EXCEPT ![i].delivered = TRUE]
    /\ invocations' = invocations (+)
           SetToBag({[fn |-> f.fn, event |-> i] :
                        f \in {g \in RegisteredFunctions : g.event = bus[i].name}})
    /\ UNCHANGED webhooks

InitWebhook ==
    /\ NoRun
    /\ NoAdmission
    /\ download = NoDownload
    /\ deductions = NoDeductions
    /\ monitor = NoMonitor
    /\ waits = NoWaits
    /\ webhooks = [w \in 1..MaxWebhooks |-> IdleWebhook]
    /\ bus = <<>>
    /\ invocations = EmptyBag

NextRemotionWebhook ==
    /\ UNCHANGED <<user, pipeline, generated_clips, sqs, run, analysisResult,
                   batchPromises, batchResults, sqsPromises, deduct, rendered,
                   handlers, clock, faults, hist, started, admission, download, deductions, monitor, waits>>
    /\ \/ \E w \in 1..MaxWebhooks : RemotionCompletePOST(w)
       \/ \E i \in DOMAIN bus : InngestDelivers(i)

SpecRemotionWebhook == InitWebhook /\ [][NextRemotionWebhook]_vars

\* The events a webhook request has sent.
EventsFrom(w) == {i \in DOMAIN bus : bus[i].from = w}

\* The runs started for event i.
RunsFor(i) ==
    BagCardinality([r \in {x \in BagToSet(invocations) : x.event = i} |-> invocations[r]])

\* C22: a render-completion webhook that carries type, renderId and customData
\* with clipId, pipelineId and outputKey is accepted, sends one event, and the
\* delivery of that event starts exactly one run of the completion aggregator.
C22_WebhookReachesAggregator ==
    \A w \in DOMAIN webhooks :
        (/\ webhooks[w].pc = "responded"
         /\ webhooks[w].payload.clipId # Absent
         /\ webhooks[w].payload.pipelineId # Absent) =>
            /\ webhooks[w].status = 200
            /\ Cardinality(EventsFrom(w)) = 1
            /\ \A i \in EventsFrom(w) : bus[i].delivered => RunsFor(i) = 1

\* ------------------------------------------------------ /api/modal-complete
\* The bodies the analysis and batch backends may post to /api/modal-complete.
ModalResults ==
    [present : {TRUE}, uploaded_file_id : {Absent, "file-1"}, user_id : {Absent, "user-1"}]

\* The results of a body that carries none.
NoResults == [present |-> FALSE, uploaded_file_id |-> Absent, user_id |-> Absent]

ModalPayloads ==
    [phase : {"phase1", "phase2", "other"},
     status : {"completed", "failed"},
     results : {NoResults} \cup ModalResults,
     batch_index : {NoIndex, 0}]

\* a || b on identifiers: the first one that is present.
JsOr(a, b) == IF a # Absent THEN a ELSE b

\* A route that forwards a phase-2 completion without looking for results.
ModalCompleteUnchecked(body) ==
    IF body.phase = "phase2" /\ body.status = "completed"
    THEN [status |-> 200, send |-> <<[name |-> "modal.phase2.completed",
                                      data |-> [results |-> body.results]]>>]
    ELSE [status |-> 200, send |-> <<>>]

\* A route that takes uploaded_file_id from results.uploaded_file_id alone.
ModalCompleteNoFallback(body) ==
    IF body.phase = "phase1" /\ body.status = "completed"
    THEN IF ~body.results.present \/ body.results.uploaded_file_id = Absent
         THEN [status |-> 400, send |-> <<>>]
         ELSE [status |-> 200,
               send |-> <<[name |-> "modal.phase1.completed",
                           data |-> [results |-> body.results,
                                     uploaded_file_id |-> body.results.uploaded_file_id]]>>]
    ELSE [status |-> 200, send |-> <<>>]

\* What POST /api/modal-complete answers and sends for a body.
ModalComplete(body) ==
    IF body.phase = "phase1" /\ body.status = "completed"
    THEN IF ~body.results.present
         THEN [status |-> 400, send |-> <<>>]
         ELSE LET uploaded_file_id ==
                      JsOr(body.results.uploaded_file_id, body.results.user_id)
              IN  IF uploaded_file_id = Absent
                  THEN [status |-> 400, send |-> <<>>]
                  ELSE [status |-> 200,
                        send |-> <<[name |-> "modal.phase1.completed",
                                    data |-> [results |-> body.results,
                                              uploaded_file_id |-> uploaded_file_id]]>>]
    ELSE IF body.phase = "phase2" /\ body.status = "completed"
    THEN IF ~body.results.present
         THEN [status |-> 400, send |-> <<>>]
         ELSE [status |-> 200,
               send |-> <<[name |-> "modal.phase2.completed",
                           data |-> [batch_index |-> body.batch_index,
                                     results |-> body.results]]>>]
    ELSE [status |-> 200, send |-> <<>>]

\* POST /api/modal-complete.
ModalCompletePOST(w) ==
    /\ webhooks[w].pc = "idle"
    /\ \E body \in ModalPayloads :
           LET answer == ModalComplete(body)
           IN  /\ webhooks' = WebhookResponds(w, body, answer.status)
               /\ bus' = IF answer.send = <<>> THEN bus
                         ELSE InngestSend(w, answer.send[1].name, answer.send[1].data)
    /\ UNCHANGED invocations

NextModalWebhook ==
    /\ UNCHANGED <<user, pipeline, generated_clips, sqs, run, analysisResult,
                   batchPromises, batchResults, sqsPromises, deduct, rendered,
                   handlers, clock, faults, hist, started, admission, download, deductions, monitor, waits>>
    /\ \/ \E w \in 1..MaxWebhooks : ModalCompletePOST(w)
       \/ \E i \in DOMAIN bus : InngestDelivers(i)

SpecModalWebhook == InitWebhook /\ [][NextModalWebhook]_vars

\* C27: a phase1 or phase2 webhook with status completed and no results is
\* answered 400 and forwards no event.
C27_MissingResultsRejected ==
    \A w \in DOMAIN webhooks :
        (/\ webhooks[w].pc = "responded"
         /\ webhooks[w].payload.phase \in {"phase1", "phase2"}
         /\ webhooks[w].payload.status = "completed"
         /\ ~webhooks[w].payload.results.present) =>
            /\ webhooks[w].status = 400
            /\ EventsFrom(w) = {}

\* A phase2 completion without results has been refused, beside a webhook that
\* was forwarded.
C27_Witness ==
    /\ \E w \in DOMAIN webhooks :
           /\ webhooks[w].pc = "responded"
           /\ webhooks[w].payload.phase = "phase2"
           /\ webhooks[w].payload.status = "completed"
           /\ ~webhooks[w].payload.results.present
           /\ webhooks[w].status = 400
    /\ bus # <<>>

\* C28: a phase1 webhook with status completed and results is answered 200 and
\* forwards exactly one modal.phase1.completed event carrying
\* results.uploaded_file_id, or results.user_id when that is absent; with both
\* absent it is answered 400 and forwards nothing.
C28_Phase1Forwarding ==
    \A w \in DOMAIN webhooks :
        (/\ webhooks[w].pc = "responded"
         /\ webhooks[w].payload.phase = "phase1"
         /\ webhooks[w].payload.status = "completed"
         /\ webhooks[w].payload.results.present) =>
            LET results == webhooks[w].payload.results
                expected == IF results.uploaded_file_id # Absent
                            THEN results.uploaded_file_id ELSE results.user_id
            IN  IF expected = Absent
                THEN webhooks[w].status = 400 /\ EventsFrom(w) = {}
                ELSE /\ webhooks[w].status = 200
                     /\ Cardinality(EventsFrom(w)) = 1
                     /\ \A i \in EventsFrom(w) :
                            /\ bus[i].name = "modal.phase1.completed"
                            /\ bus[i].data.uploaded_file_id = expected

\* The fallback has been taken: results without uploaded_file_id were forwarded
\* under the user_id.
C28_Witness ==
    \E w \in DOMAIN webhooks :
        /\ webhooks[w].pc = "responded"
        /\ webhooks[w].status = 200
        /\ webhooks[w].payload.phase = "phase1"
        /\ webhooks[w].payload.status = "completed"
        /\ webhooks[w].payload.results.present
        /\ webhooks[w].payload.results.uploaded_file_id = Absent
        /\ \E i \in EventsFrom(w) : bus[i].data.uploaded_file_id = "user-1"

\* --------------------------------------------------- rapidApiOrchestrator
maxAttempts == 120

\* The function has thrown; with retries: 0 the run is over.
DownloadFails == [download EXCEPT !.pc = "function-failed"]

\* Step "send-rapidapi-request" with an ok response: its JSON body is the
\* step's result, whatever fields it carries.
SendRapidApiRequest ==
    /\ download.pc = "send-rapidapi-request"
    /\ \E direct \in {Absent, "direct-url"}, progress \in {Absent, "progress-url"} :
           download' = [download EXCEPT !.pc = "poll-for-download-url",
                                        !.download_url = direct,
                                        !.progress_url = progress]
    /\ UNCHANGED <<inbound, faults>>

\* Step "send-rapidapi-request", response not ok: the step throws.
SendRapidApiRequestFails ==
    /\ download.pc = "send-rapidapi-request"
    /\ Fault
    /\ download' = DownloadFails
    /\ UNCHANGED inbound

\* Step "poll-for-download-url", one round of the loop that ends without a
\* download_url: the status request is not ok, or its body has no
\* download_url yet, or fetch throws (as it does for a missing progress_url).
PollNotReady ==
    /\ download.pc = "poll-for-download-url"
    /\ download.attempt < maxAttempts
    /\ download' = [download EXCEPT !.attempt = @ + 1]
    /\ UNCHANGED <<inbound, faults>>

\* Step "poll-for-download-url", a round whose body carries download_url: the
\* step returns it.
PollReady ==
    /\ download.pc = "poll-for-download-url"
    /\ download.attempt < maxAttempts
    /\ download.progress_url # Absent
    /\ download' = [download EXCEPT !.attempt = @ + 1, !.pc = "trigger-phase1",
                                    !.downloadResult = "polled-url"]
    /\ UNCHANGED <<inbound, faults>>

\* Step "poll-for-download-url" after maxAttempts rounds: the step throws.
PollExhausted ==
    /\ download.pc = "poll-for-download-url"
    /\ download.attempt = maxAttempts
    /\ download' = DownloadFails
    /\ UNCHANGED <<inbound, faults>>

\* Step "trigger-phase1": phase1.analysis.start is sent with the polled URL.
TriggerPhase1 ==
    /\ download.pc = "trigger-phase1"
    /\ bus' = InngestSend(0, "phase1.analysis.start",
                          [downloadUrl |-> download.downloadResult])
    /\ download' = [download EXCEPT !.pc = "returned"]
    /\ UNCHANGED <<webhooks, invocations, faults>>

InitDownload ==
    /\ NoRun
    /\ NoAdmission
    /\ NoInbound
    /\ download = [NoDownload EXCEPT !.pc = "send-rapidapi-request"]
    /\ deductions = NoDeductions
    /\ monitor = NoMonitor
    /\ waits = NoWaits

NextDownload ==
    /\ UNCHANGED <<user, pipeline, generated_clips, sqs, run, analysisResult,
                   batchPromises, batchResults, sqsPromises, deduct, rendered,
                   handlers, clock, hist, started, admission, deductions, monitor, waits>>
    /\ \/ SendRapidApiRequest
       \/ SendRapidApiRequestFails
       \/ PollNotReady
       \/ PollReady
       \/ PollExhausted
       \/ TriggerPhase1

SpecDownload == InitDownload /\ [][NextDownload]_vars

\* The phase1.analysis.start events sent so far.
Phase1Triggers == {i \in DOMAIN bus : bus[i].name = "phase1.analysis.start"}

\* C23: when the first response carries a direct download URL nothing is
\* polled and phase 1 is triggered with that URL; otherwise phase 1 is
\* triggered at most once, with the polled URL, and once the function returns
\* it has been triggered.
C23_DownloadResolution ==
    /\ Cardinality(Phase1Triggers) <= 1
    /\ download.download_url # Absent =>
           /\ download.attempt = 0
           /\ download.pc # "function-failed"
           /\ \A i \in Phase1Triggers : bus[i].data.downloadUrl = download.download_url
    /\ download.pc = "returned" => Cardinality(Phase1Triggers) = 1

InitAfterAnalysis == \E n \in 0..MaxMoments : Analysed(n, MaxCredits)

NextAfterAnalysis ==
    \/ Phase2BatchProcessing
    \/ UpdatePipelineAfterBatches
    \/ Phase3RemotionRendering

SpecAfterAnalysis == InitAfterAnalysis /\ [][NextAfterAnalysis]_vars

\* C25: with no viral moments no batch request is sent, the batch phase
\* returns an empty result, and phase 3 is skipped: no clip row is created and
\* no render message is sent.
C25_ZeroCandidates ==
    analysisResult = 0 =>
        /\ batchPromises = <<>>
        /\ batchResults = <<>>
        /\ sqsPromises = <<>>
        /\ generated_clips = <<>>
        /\ sqs = <<>>
        /\ faults = 0
        /\ run.pc # "function-failed"

\* The run without viral moments has passed the batch phase and phase 3.
C25_Witness ==
    /\ analysisResult = 0
    /\ run.pc = "deduct-credits"
    /\ pipeline.phase2_completed_at > 0
    /\ pipeline.phase3_started_at > 0

\* ------------------------------------- handleRenderCompleted, datastore errors
\* step "update-final-status" when the update of the clip row fails: supabase
\* returns the error, the step does not look at it, and the run goes on.
UpdateFinalStatusFails(h) ==
    /\ h.pc = "update-final-status"
    /\ Fault
    /\ handlers' = Replace(h, [h EXCEPT !.pc = "check-pipeline-completion"])
    /\ UNCHANGED <<waits, monitor, deductions, download, inbound, started, admission, user, pipeline, generated_clips,
                   sqs, run, analysisResult, batchPromises, batchResults, sqsPromises,
                   deduct, rendered, clock, hist>>

\* step "check-pipeline-completion" when the select of the clips fails: data is
\* null, if (clips) is false and the run ends with success.
CheckPipelineCompletionFails(h) ==
    /\ h.pc = "check-pipeline-completion"
    /\ Fault
    /\ handlers' = handlers (-) SetToBag({h})
    /\ UNCHANGED <<waits, monitor, deductions, download, inbound, started, admission, user, pipeline, generated_clips,
                   sqs, run, analysisResult, batchPromises, batchResults, sqsPromises,
                   deduct, rendered, clock, hist>>

\* The render backend and the completion handlers, with a datastore that may
\* refuse a call.
NextHandlerFaults ==
    \/ \E c \in DOMAIN sqs : \E o \in {"success", "failed"} : RenderCompletes(c, o)
    \/ handleRenderCompleted
    \/ \E h \in BagToSet(handlers) : UpdateFinalStatusFails(h)
    \/ \E h \in BagToSet(handlers) : CheckPipelineCompletionFails(h)

SpecHandlerFaults == InitNotify /\ [][NextHandlerFaults]_vars

RenderCompleteArrives(c, outcome) ==
    /\ Fault
    /\ handlers' = handlers (+) SetToBag({NewHandler(c, outcome)})
    /\ UNCHANGED <<waits, monitor, deductions, download, inbound, started, admission, user, pipeline, generated_clips,
                   sqs, run, analysisResult, batchPromises, batchResults, sqsPromises,
                   deduct, rendered, clock, hist>>

NextZeroRows ==
    \/ NextAfterAnalysis
    \/ \E c \in 0..(MaxMoments - 1) : \E o \in {"success", "failed"} :
           RenderCompleteArrives(c, o)
    \/ handleRenderCompleted

SpecZeroRows == InitAfterAnalysis /\ [][NextZeroRows]_vars

\* C29: a pipeline that has no clip rows is never marked completed (completion
\* requires finished = total and total > 0).
C29_NoCompletionWithoutClips ==
    DOMAIN generated_clips = {} => pipeline.status # "completed"

\* ------------------------------------------------ create-batches, both forms
\* analysisResult.viral_moments: L candidates, each known by an identifier
\* that is not its position.
ViralMoments(L) == [k \in 1..L |-> L - k + 1]

\* A tagging that counts from the start of the batch.
BatchWithIndexWithinBatch(batch, i) ==
    [idx \in 1..Len(batch) |-> [moment |-> batch[idx], original_index |-> idx - 1]]

\* batch.map((moment, idx) => ({...moment, original_index: i + idx}))
BatchWithIndex(batch, i) ==
    [idx \in 1..Len(batch) |-> [moment |-> batch[idx], original_index |-> i + (idx - 1)]]

\* phase2BatchProcessorEventDriven, step "create-batches":
\* for (i = 0; i < viralMoments.length; i += clipsPerBatch) batches.push(...)
RECURSIVE createBatches(_, _)
createBatches(viralMoments, i) ==
    IF i >= Len(viralMoments) THEN <<>>
    ELSE <<BatchWithIndex(Slice(viralMoments, i, i + clipsPerBatch), i)>>
         \o createBatches(viralMoments, i + clipsPerBatch)

RECURSIVE Concat(_)
Concat(batches) == IF batches = <<>> THEN <<>> ELSE Head(batches) \o Concat(Tail(batches))

\* Every batch but the last has clipsPerBatch members, the last 1..clipsPerBatch.
WellSized(batches) ==
    \A b \in DOMAIN batches :
        IF b < Len(batches) THEN Len(batches[b]) = clipsPerBatch
        ELSE Len(batches[b]) \in 1..clipsPerBatch

\* C30: for every candidate list of length L the batches of both create-batches
\* forms are contiguous slices in the original order: every batch has
\* clipsPerBatch candidates except possibly the last (1..clipsPerBatch), the
\* concatenation of the batches is the input list, and the original_index of
\* each candidate is its position in the whole list.
C30_BatchPartition ==
    \A L \in {Max2(analysisResult, 0)} \cup 0..MaxCandidates :
        LET groups == [b \in DOMAIN BatchGroupsFrom(IndexedMoments(L), 0) |->
                          BatchGroupsFrom(IndexedMoments(L), 0)[b].viral_moments]
            batches == createBatches(ViralMoments(L), 0)
            all == Concat(batches)
        IN  /\ WellSized(groups)
            /\ WellSized(batches)
            /\ Concat(groups) = IndexedMoments(L)
            /\ [p \in DOMAIN all |-> all[p].moment] = ViralMoments(L)
            /\ \A p \in DOMAIN all : all[p].original_index = p - 1
            /\ \A p \in DOMAIN Concat(groups) : Concat(groups)[p] = p - 1

\* Nine candidates have been grouped and the requests of the three batches
\* started; the last batch holds one candidate, tagged with index 8.
C30_Witness ==
    /\ analysisResult = 2 * clipsPerBatch + 1
    /\ Len(batchPromises) = 3
    /\ BatchGroups[3].clip_count = 1
    /\ BatchGroups[3].viral_moments = <<2 * clipsPerBatch>>
    /\ createBatches(ViralMoments(analysisResult), 0)[3] =
           <<[moment |-> 1, original_index |-> 2 * clipsPerBatch]>>

\* ------------------------------------------------- phase3RemotionProcessor
\* The event-driven phase 3 (retries: 0), started by phase3.remotion.start with
\* the processed clips of phase 2 in event.data.
Phase3EventFrame ==
    UNCHANGED <<waits, monitor, deductions, download, inbound, started, admission, user, analysisResult,
                batchPromises, batchResults, sqsPromises, deduct, rendered, handlers,
                hist>>

\* Inngest starts the run for the event trigger-phase3 has sent.
Phase3EventStarts ==
    /\ run.pc = "returned" /\ run.at = "phase3.remotion.start"
    /\ run' = [pc |-> "phase3/update-pipeline-status-phase3", attempt |-> 0,
               at |-> "start", i |-> 0]
    /\ UNCHANGED <<pipeline, generated_clips, sqs, clock, faults>>
    /\ Phase3EventFrame

\* step "update-pipeline-status-phase3"; the error of the update is not read.
Phase3EventUpdateStatus ==
    /\ AtStep("phase3/update-pipeline-status-phase3")
    /\ \/ /\ UpdatePipeline([status |-> "remotion_rendering", phase3_started_at |-> clock])
          /\ faults' = faults
       \/ Fault /\ pipeline' = pipeline
    /\ clock' = clock + 1
    /\ run' = [run EXCEPT !.pc = "phase3/send-to-sqs", !.i = 0]
    /\ UNCHANGED <<generated_clips, sqs>>
    /\ Phase3EventFrame

\* for (const clip of processedClips): the clip of the i-th iteration.
ClipOfIteration(i) ==
    CHOOSE c \in allProcessedClips : Cardinality({d \in allProcessedClips : d < c}) = i

SendToSqsIterating ==
    /\ AtStep("phase3/send-to-sqs")
    /\ run.i < Cardinality(allProcessedClips)

\* One iteration: the row is inserted and the message sent;
\* results.push({clipId, status: "queued"}).
SendToSqsClipQueued ==
    /\ SendToSqsIterating
    /\ LET c == ClipOfIteration(run.i)
       IN  /\ generated_clips' = (c :> "QUEUED") @@ generated_clips
           /\ sqs' = (c :> (IF c \in DOMAIN sqs THEN sqs[c] + 1 ELSE 1)) @@ sqs
    /\ run' = [run EXCEPT !.i = run.i + 1]
    /\ UNCHANGED <<pipeline, clock, faults>>
    /\ Phase3EventFrame

\* One iteration whose insert fails: the error is logged, continue.
SendToSqsInsertFails ==
    /\ SendToSqsIterating
    /\ Fault
    /\ run' = [run EXCEPT !.i = run.i + 1]
    /\ UNCHANGED <<pipeline, generated_clips, sqs, clock>>
    /\ Phase3EventFrame

\* One iteration whose sqsClient.send throws after the insert: the catch
\* pushes {status: "failed"} and the loop goes on.
SendToSqsSendFails ==
    /\ SendToSqsIterating
    /\ Fault
    /\ generated_clips' = (ClipOfIteration(run.i) :> "QUEUED") @@ generated_clips
    /\ run' = [run EXCEPT !.i = run.i + 1]
    /\ UNCHANGED <<pipeline, sqs, clock>>
    /\ Phase3EventFrame

\* return results
SendToSqsReturns ==
    /\ AtStep("phase3/send-to-sqs")
    /\ run.i = Cardinality(allProcessedClips)
    /\ run' = [run EXCEPT !.pc = "phase3/update-pipeline-completed", !.i = 0]
    /\ UNCHANGED <<pipeline, generated_clips, sqs, clock, faults>>
    /\ Phase3EventFrame

\* step "update-pipeline-completed"; the error of the update is not read.
Phase3EventUpdateCompleted ==
    /\ AtStep("phase3/update-pipeline-completed")
    /\ \/ /\ UpdatePipeline([status |-> "completed", phase3_completed_at |-> clock])
          /\ faults' = faults
       \/ Fault /\ pipeline' = pipeline
    /\ clock' = clock + 1
    /\ run' = [run EXCEPT !.pc = "returned", !.at = "phase3_completed"]
    /\ UNCHANGED <<generated_clips, sqs>>
    /\ Phase3EventFrame

phase3RemotionProcessor ==
    \/ Phase3EventStarts
    \/ Phase3EventUpdateStatus
    \/ SendToSqsClipQueued
    \/ SendToSqsInsertFails
    \/ SendToSqsSendFails
    \/ SendToSqsReturns
    \/ Phase3EventUpdateCompleted

NextEventPhase3 == NextEvent \/ phase3RemotionProcessor

SpecEventPhase3 == InitEvent /\ [][NextEventPhase3]_vars

\* The dispatch step of either phase 3 has returned.
DispatchFinished ==
    \/ hist.dispatched
    \/ run.pc = "phase3/update-pipeline-completed"
    \/ run.pc = "returned" /\ run.at = "phase3_completed"

\* C31: when the render-dispatch phase has finished, every processed clip has
\* one clip row in status QUEUED and one render-dispatch message, and the rows
\* and the messages are those of the same clips.
C31_RowAndMessagePerClip ==
    DispatchFinished =>
        /\ DOMAIN generated_clips = allProcessedClips
        /\ DOMAIN sqs = allProcessedClips
        /\ \A c \in allProcessedClips : generated_clips[c] = "QUEUED" /\ sqs[c] = 1

\* C32: whenever the pipeline is completed, each of its clips is COMPLETED or
\* FAILED and successful_clips and failed_clips are the numbers of its clips in
\* those two statuses.
C32_CompletedMeansClipsFinished ==
    pipeline.status = "completed" =>
        /\ \A c \in DOMAIN generated_clips : generated_clips[c] \in FinishedClipStatuses
        /\ pipeline.successful_clips = CountStatus("COMPLETED")
        /\ pipeline.failed_clips = CountStatus("FAILED")

\* C33: whatever the failures and retries of the dispatch step of
\* unifiedPipelineProcessor, no clip has more than one render-dispatch message.
C33_DispatchedAtMostOnce ==
    \A c \in DOMAIN sqs : sqs[c] = 1

\* The dispatch step is in its second attempt and the insert of a clip whose
\* message the first attempt has sent was rejected.
C33_Witness ==
    /\ run.pc = "phase3-remotion-rendering"
    /\ run.attempt = 1
    /\ \E c \in DOMAIN sqsPromises : sqsPromises[c] = "rejected" /\ c \in DOMAIN sqs

\* ------------------------------ POST /api/deduct-credits, concurrent requests
\* Requests for the one user, each {userId, credits, reason}; the route runs
\* one select and one update for each, and requests interleave freely.
DeductFrame ==
    UNCHANGED <<pipeline, generated_clips, sqs, run, analysisResult, batchPromises,
                batchResults, sqsPromises, deduct, rendered, handlers, clock, faults,
                hist, started, admission, inbound, download, monitor, waits>>

\* A route that does not compare the balance with the amount.
RouteDecisionUnchecked(currentCredits, credits) == "update"

\* if (currentCredits < credits) return 400 'Insufficient credits'
RouteDecision(currentCredits, credits) ==
    IF currentCredits < credits THEN "status-400" ELSE "update"

\* The request arrives: const { userId, credits, reason } = await req.json()
PostDeductCredits(r, credits) ==
    /\ r \notin DOMAIN deductions
    /\ deductions' = (r :> [IdleRoute EXCEPT !.pc = "select", !.credits = credits])
                     @@ deductions
    /\ user' = user
    /\ DeductFrame

\* select('id, email, credits, total_credits_used'), then the balance test.
PostSelectProfile(r) ==
    /\ r \in DOMAIN deductions
    /\ deductions[r].pc = "select"
    /\ deductions' = [deductions EXCEPT ![r] =
            [deductions[r] EXCEPT
                !.currentCredits = user.credits,
                !.total_credits_used = user.total_credits_used,
                !.pc = RouteDecision(user.credits, deductions[r].credits)]]
    /\ user' = user
    /\ DeductFrame

\* update({credits: newCredits, total_credits_used: ... + credits}); 200.
PostUpdateProfile(r) ==
    /\ r \in DOMAIN deductions
    /\ deductions[r].pc = "update"
    /\ user' = [credits |-> deductions[r].currentCredits - deductions[r].credits,
                total_credits_used |-> deductions[r].total_credits_used
                                       + deductions[r].credits]
    /\ deductions' = [deductions EXCEPT ![r].pc = "status-200"]
    /\ DeductFrame

InitDeduct == \E c \in 0..MaxCredits : InitAt(c, "idle")

NextDeduct ==
    \E r \in 1..MaxDeductions :
        \/ \E a \in 1..MaxAmount : PostDeductCredits(r, a)
        \/ PostSelectProfile(r)
        \/ PostUpdateProfile(r)

SpecDeduct == InitDeduct /\ [][NextDeduct]_vars

\* The requests the route has answered with 200.
SucceededDeductions == {r \in DOMAIN deductions : deductions[r].pc = "status-200"}

AnsweredDeductions ==
    {r \in DOMAIN deductions : deductions[r].pc \in {"status-200", "status-400"}}

\* C34: once every request has been answered, the balance is the initial
\* balance minus the amounts of the requests that were answered with success,
\* whatever the interleaving.
C34_NoLostDeduction ==
    AnsweredDeductions = DOMAIN deductions =>
        user.credits = hist.credits0
            - SumSeq([r \in 1..MaxDeductions |->
                        IF r \in SucceededDeductions THEN deductions[r].credits ELSE 0])

\* C35: the balance is never negative, and a request for more than the balance
\* it reads is answered 400 and leaves credits and total_credits_used as they
\* were.
C35_NeverNegative ==
    /\ user.credits >= 0
    /\ [][/\ user'.credits >= 0
          /\ \A r \in DOMAIN deductions :
                 (PostSelectProfile(r) /\ deductions[r].credits > user.credits) =>
                     deductions'[r].pc = "status-400" /\ user' = user
          /\ \A r \in DOMAIN deductions :
                 deductions[r].pc = "status-400" => deductions'[r].pc = "status-400"]_vars

\* One request has been served and a second one, for more than what is left,
\* has been refused.
C35_Witness ==
    /\ SucceededDeductions # {}
    /\ \E r \in DOMAIN deductions :
           /\ deductions[r].pc = "status-400"
           /\ deductions[r].credits > user.credits
           /\ deductions[r].currentCredits = user.credits

\* -------------------------------------- admission and the end of pipelines
\* The pipelines rows of user u, by status class.
PipelinesOf(u, terminal) ==
    BagCardinality([r \in {x \in BagToSet(pipelines) :
                              x.user_id = u /\ (x.status \in TerminalStatuses) = terminal} |->
                        pipelines[r]])

\* The pipeline function of an admitted submission ends its pipeline: the
\* update writes the terminal status into the pipelines row and touches no
\* other table.
PipelineEnds(r, status) ==
    /\ r \in BagToSet(pipelines)
    /\ r.status \notin TerminalStatuses
    /\ PipelinesOf(r.user_id, TRUE)
           < Cardinality({p \in events : posts[p].user_id = r.user_id})
    /\ pipelines' = (pipelines (-) SetToBag({r})) (+) SetToBag({[r EXCEPT !.status = status]})
    /\ UNCHANGED <<user, pipeline, generated_clips, sqs, run, analysisResult,
                   batchPromises, batchResults, sqsPromises, deduct, rendered,
                   handlers, clock, faults, hist, started, inbound, download,
                   deductions, monitor, waits, profiles, posts, events>>

InitQuota ==
    /\ NoRun
    /\ NoInbound
    /\ download = NoDownload
    /\ deductions = NoDeductions
    /\ monitor = NoMonitor
    /\ waits = NoWaits
    /\ profiles = [u \in Users |->
           [is_blocked |-> FALSE, credits |-> 1,
            daily_requests |-> 0, daily_limit |-> DailyLimit,
            concurrent_jobs |-> 0, concurrent_limit |-> ConcurrentLimit]]
    /\ pipelines = EmptyBag
    /\ posts = [p \in 1..MaxPosts |-> IdlePost]
    /\ events = {}

NextQuota ==
    \/ NextAdmission
    \/ \E r \in BagToSet(pipelines) : \E status \in {"completed", "failed"} :
           PipelineEnds(r, status)

SpecQuota == InitQuota /\ [][NextQuota]_vars

\* C36: when no submission of a user is in progress at the route, the user's
\* concurrent_jobs is the number of the user's pipelines in a non-terminal
\* status.
C36_ConcurrentJobsCounted ==
    \A u \in Users :
        (\A p \in DOMAIN posts :
             posts[p].user_id = u => posts[p].pc = "responded") =>
            profiles[u].concurrent_jobs = PipelinesOf(u, FALSE)

\* ---------------------------------- step.waitForEvent and the backend webhooks
\* Two pipelines of one user.  For each, one run of
\* phase1OrchestratorEventDriven or of phase2BatchProcessorEventDriven, from its
\* trigger step to the end of its waits.  The backend posts one body to
\* /api/modal-complete for every job it was given; the route forwards it as an
\* event, and Inngest resumes the waits that are registered and match at that
\* moment.  An event no registered wait matches resumes nothing later.
Pipelines == {"file-A", "file-B"}

WaitFrame ==
    UNCHANGED <<user, pipeline, generated_clips, sqs, run, analysisResult, batchPromises,
                batchResults, sqsPromises, deduct, rendered, handlers, clock, faults,
                hist, started, admission, webhooks, invocations, download, deductions,
                monitor>>

\* event.data of phase1.analysis.start and of phase2.batch.start.
TriggerData(p) == [uploadedFileId |-> p, userId |-> "user-1"]

\* data.<f> of an event; a field the data does not carry has no value.
NoValue(f) == IF f = "batch_index" THEN NoIndex ELSE Absent

Field(data, f) == IF f \in DOMAIN data THEN data[f] ELSE NoValue(f)

\* event: and match: of the waitForEvent of each function.
WaitEvent(fn) ==
    IF fn = "phase1" THEN "modal.phase1.completed" ELSE "modal.phase2.completed"

WaitMatch(fn) == IF fn = "phase1" THEN "uploaded_file_id" ELSE "batch_index"

\* match: "data.f" is the expression event.data.f == async.data.f over the
\* triggering event and the incoming one.  When neither carries f the outcome is
\* the expression engine's: nullEqual says whether it takes the two as equal.
Matches(p, e, nullEqual) ==
    LET f == WaitMatch(waits[p].fn)
    IN  /\ e.name = WaitEvent(waits[p].fn)
        /\ Field(TriggerData(p), f) = Field(e.data, f)
        /\ Field(e.data, f) = NoValue(f) => nullEqual

\* The run of function fn for a pipeline, invoked by its event.
NewWait(fn, n) ==
    [fn |-> fn, pc |-> "trigger", n |-> n, i |-> 0, jobs |-> {}, results |-> <<>>]

\* trigger-modal-phase1 / trigger-batch-processing: the backend accepts the
\* request (every batch request, batch_index 0..n-1) and the step returns.
WaitTrigger(p) ==
    /\ waits[p].pc = "trigger"
    /\ waits' = [waits EXCEPT ![p].pc = "unregistered",
                              ![p].jobs = IF waits[p].fn = "phase1" THEN {0}
                                          ELSE 0..(waits[p].n - 1)]
    /\ bus' = bus
    /\ WaitFrame

\* Inngest registers the waitForEvent the function has reached.
WaitRegisters(p) ==
    /\ waits[p].pc = "unregistered"
    /\ waits' = [waits EXCEPT ![p].pc = "waiting"]
    /\ bus' = bus
    /\ WaitFrame

\* The run after one wait has ended with result r: phase 1 goes on (or fails on
\* null), phase 2 pushes r and waits for the next trigger or returns.
AfterWait(w, r) ==
    IF w.fn = "phase1"
    THEN [w EXCEPT !.pc = IF r.status = "timeout" THEN "timeout" ELSE "resumed",
                   !.results = Append(@, r)]
    ELSE [w EXCEPT !.pc = IF w.i + 1 < w.n THEN "unregistered" ELSE "aggregate",
                   !.i = @ + 1,
                   !.results = Append(@, r)]

\* The bodies the backend may post for job j of pipeline p.
BackendBodies(p, j) ==
    IF waits[p].fn = "phase1"
    THEN {[phase |-> "phase1", status |-> "completed", batch_index |-> NoIndex,
           results |-> [present |-> TRUE, uploaded_file_id |-> id, user_id |-> "user-1"]] :
             id \in {p, Absent}}
    ELSE {[phase |-> "phase2", status |-> "completed", batch_index |-> b,
           results |-> [present |-> TRUE, uploaded_file_id |-> p, user_id |-> "user-1"]] :
             b \in {j, NoIndex}}

\* The backend finishes job j of pipeline p and posts to /api/modal-complete;
\* the route sends the event; every registered wait it matches is resumed with it.
BackendWebhook(p, j) ==
    /\ j \in waits[p].jobs
    /\ \E body \in BackendBodies(p, j), nullEqual \in BOOLEAN :
           LET answer == ModalComplete(body)
               e == answer.send[1]
               r == [status |-> "completed", pipeline |-> p, job |-> j]
           IN  /\ answer.send # <<>>
               /\ bus' = InngestSend(<<p, j>>, e.name, e.data)
               /\ waits' = [q \in DOMAIN waits |->
                      LET w == IF q = p THEN [waits[q] EXCEPT !.jobs = @ \ {j}]
                               ELSE waits[q]
                      IN  IF w.pc = "waiting" /\ Matches(q, e, nullEqual) THEN AfterWait(w, r) ELSE w]
    /\ WaitFrame

\* The timeout of the registered wait passes, after the backend has posted for
\* every job of the pipeline: waitForEvent returns null.
WaitTimesOut(p) ==
    /\ waits[p].pc = "waiting"
    /\ waits[p].jobs = {}
    /\ waits' = [waits EXCEPT ![p] =
                    AfterWait(waits[p], [status |-> "timeout", pipeline |-> p,
                                         job |-> waits[p].i])]
    /\ bus' = bus
    /\ WaitFrame

InitWait ==
    /\ NoRun
    /\ NoAdmission
    /\ download = NoDownload
    /\ deductions = NoDeductions
    /\ monitor = NoMonitor
    /\ webhooks = <<>>
    /\ bus = <<>>
    /\ invocations = EmptyBag
    /\ \E fn \in {"phase1", "phase2"}, n \in 1..MaxBatches :
           waits = [p \in Pipelines |-> NewWait(fn, IF fn = "phase1" THEN 1 ELSE n)]

NextWait ==
    \E p \in Pipelines :
        \/ WaitTrigger(p)
        \/ WaitRegisters(p)
        \/ \E j \in 0..(MaxBatches - 1) : BackendWebhook(p, j)
        \/ WaitTimesOut(p)

SpecWait == InitWait /\ [][NextWait]_vars

\* The events Inngest has received from the backend's job j for pipeline p.
EventsOfJob(p, j) == {k \in DOMAIN bus : bus[k].from = <<p, j>>}

\* C37: a phase-1 run whose completion webhook has been forwarded to Inngest
\* after the trigger request does not end in the timeout of its wait.
C37_Phase1WebhookObserved ==
    \A p \in DOMAIN waits :
        (waits[p].fn = "phase1" /\ EventsOfJob(p, 0) # {}) => waits[p].pc # "timeout"

C39_EveryBatchAggregated ==
    \A p \in DOMAIN waits :
        (waits[p].fn = "phase2" /\ waits[p].pc = "aggregate") =>
            \A j \in 0..(waits[p].n - 1) :
                EventsOfJob(p, j) # {} =>
                    Cardinality({k \in DOMAIN waits[p].results :
                                    /\ waits[p].results[k].status = "completed"
                                    /\ waits[p].results[k].pipeline = p
                                    /\ waits[p].results[k].job = j}) = 1

\* ------------------------------------------------- monitorRemotionProgress
\* One run per clip whose render has started (remotion.progress.monitor).  The
\* function body is executed again from its first line after every step; a
\* step that has run returns its recorded result, and the variables of the
\* body (attempts, finalStatus, r2CdnUrl, errorMsg) start from their
\* initialisers in every execution.
monitorMaxAttempts == 36

MonitorFrame ==
    UNCHANGED <<user, sqs, run, analysisResult, batchPromises, batchResults, sqsPromises,
                deduct, rendered, faults, hist, started, admission, inbound, download,
                deductions, waits>>

\* let attempts = 0; let finalStatus = "FAILED"; no event sent yet.
NewMonitor ==
    [pc |-> "progress-check-delay", attempts |-> 0, progress |-> "none",
     finalStatus |-> "FAILED", sent |-> <<>>]

\* The body as it is after a step has returned and the function is executed
\* again: what a step callback assigned to finalStatus is gone.
Replayed(m) == [m EXCEPT !.finalStatus = "FAILED"]

\* handleRenderStarted has sent remotion.progress.monitor for clip c.
MonitorStarts(c) ==
    /\ c \in DOMAIN generated_clips
    /\ c \notin DOMAIN monitor
    /\ monitor' = (c :> NewMonitor) @@ monitor
    /\ UNCHANGED <<pipeline, generated_clips, handlers, clock>>
    /\ MonitorFrame

\* step.sleep("progress-check-delay", "5s"); attempts++
ProgressCheckDelay(c) ==
    /\ c \in DOMAIN monitor
    /\ monitor[c].pc = "progress-check-delay"
    /\ monitor' = [monitor EXCEPT ![c] = [Replayed(@) EXCEPT !.attempts = @ + 1,
                                                            !.pc = "check-progress"]]
    /\ UNCHANGED <<pipeline, generated_clips, handlers, clock>>
    /\ MonitorFrame

\* step check-progress-<attempts> and the rest of the loop body.  result is
\* what getRenderProgress gives: still rendering, done, errors, or it throws.
\* On errors the step marks the clip FAILED and throws; after a step that
\* returned, the attempts test comes before the loop condition.
CheckProgress(c, result) ==
    /\ c \in DOMAIN monitor
    /\ monitor[c].pc = "check-progress"
    /\ generated_clips' = IF result = "errors"
                          THEN [generated_clips EXCEPT ![c] = "FAILED"]
                          ELSE generated_clips
    /\ monitor' = [monitor EXCEPT ![c] = [Replayed(@) EXCEPT
            !.progress = result,
            !.pc = IF result \in {"errors", "throws"} THEN "catch"
                   ELSE IF monitor[c].attempts >= monitorMaxAttempts THEN "catch"
                   ELSE IF result = "rendering" THEN "progress-check-delay"
                   ELSE "handle-completion"]]
    /\ UNCHANGED <<pipeline, handlers, clock>>
    /\ MonitorFrame

\* step handle-completion: progress.done without errors, so the callback sets
\* finalStatus = "COMPLETED" and updates the clip to COMPLETED with its URL.
HandleCompletion(c) ==
    /\ c \in DOMAIN monitor
    /\ monitor[c].pc = "handle-completion"
    /\ generated_clips' = [generated_clips EXCEPT ![c] = "COMPLETED"]
    /\ monitor' = [monitor EXCEPT ![c] = [@ EXCEPT !.finalStatus = "COMPLETED",
                                                   !.pc = "finally"]]
    /\ UNCHANGED <<pipeline, handlers, clock>>
    /\ MonitorFrame

\* catch: the clip is updated to FAILED.
MonitorCatch(c) ==
    /\ c \in DOMAIN monitor
    /\ monitor[c].pc = "catch"
    /\ generated_clips' = [generated_clips EXCEPT ![c] = "FAILED"]
    /\ monitor' = [monitor EXCEPT ![c] = [Replayed(@) EXCEPT !.pc = "finally"]]
    /\ UNCHANGED <<pipeline, handlers, clock>>
    /\ MonitorFrame

\* finally: remotion.render.complete is sent with the status finalStatus gives,
\* then checkPipelineCompletion(pipelineId) marks the pipeline COMPLETED when
\* every clip row is COMPLETED or FAILED.
MonitorFinally(c) ==
    /\ c \in DOMAIN monitor
    /\ monitor[c].pc = "finally"
    /\ LET m == Replayed(monitor[c])
           status == IF m.finalStatus = "COMPLETED" THEN "success" ELSE "failed"
           totalClips == Cardinality(DOMAIN generated_clips)
           completedClips == CountStatus("COMPLETED")
           failedClips == CountStatus("FAILED")
       IN  /\ monitor' = [monitor EXCEPT ![c] = [m EXCEPT !.sent = Append(@, status),
                                                          !.pc = "returned"]]
           /\ handlers' = handlers (+) SetToBag({NewHandler(c, status)})
           /\ IF completedClips + failedClips = totalClips
              THEN /\ UpdatePipeline([status |-> "COMPLETED",
                                      phase3_completed_at |-> clock,
                                      successful_clips |-> completedClips,
                                      failed_clips |-> failedClips])
                   /\ clock' = clock + 1
              ELSE UNCHANGED <<pipeline, clock>>
    /\ UNCHANGED generated_clips
    /\ MonitorFrame

monitorRemotionProgress ==
    \E c \in 0..(MaxMoments - 1) :
        \/ MonitorStarts(c)
        \/ ProgressCheckDelay(c)
        \/ \E result \in {"rendering", "done", "errors", "throws"} : CheckProgress(c, result)
        \/ HandleCompletion(c)
        \/ MonitorCatch(c)
        \/ MonitorFinally(c)

InitMonitor == \E n \in 1..MaxMoments : Dispatched(n, MaxCredits)

SpecMonitor == InitMonitor /\ [][monitorRemotionProgress]_vars

\* C40: a monitor run makes at most 36 progress checks, and when it has
\* returned its clip is COMPLETED or FAILED and it has sent exactly one
\* remotion.render.complete, with status success for a clip it left COMPLETED
\* and failed for a clip it left FAILED.
C40_MonitorEndsConsistently ==
    \A c \in DOMAIN monitor :
        /\ monitor[c].attempts <= monitorMaxAttempts
        /\ monitor[c].pc = "returned" =>
               /\ generated_clips[c] \in {"COMPLETED", "FAILED"}
               /\ Len(monitor[c].sent) = 1
               /\ (monitor[c].sent[1] = "success") <=> (generated_clips[c] = "COMPLETED")
====
